---- MODULE Spec2Model ----
(***************************************************************************)
(* A model of the simulated OBD-II / UDS diagnostic endpoint:              *)
(*   - the ISO-TP frame codec, sender and receiver (src/lib/isotp.py),     *)
(*   - the UDS service engine (src/lib/uds_services.py),                   *)
(*   - the fault registry (src/lib/dtc_manager.py),                        *)
(*   - the sensor model (src/lib/vehicle_simulator.py) and the entry       *)
(*     points that clear diagnostic information,                           *)
(*   - the OBD service handler (src/lib/obd_services.py) and the DTC byte  *)
(*     codec,                                                              *)
(*   - the units of the multi-ECU system on the shared bus                 *)
(*     (src/mock_ecu_v2.py, src/lib/multi_ecu.py).                         *)
(* Bytes are integers 0..255, byte strings are sequences of bytes.         *)
(* Times are integers, in milliseconds.                                    *)
(* Each part has its own specification (SpecTp for ISO-TP, SpecUds and     *)
(* SpecUdsTime for the UDS engine, SpecDtc and SpecHist for the fault      *)
(* registry, SpecVeh for the sensor model and the clear entry points,      *)
(* SpecSens, SpecCrank and SpecReady for the calls of the sensor model,    *)
(* SpecStop for its statements under two threads, SpecObd for the OBD      *)
(* handler, SpecCodec for the DTC codec, SpecBus for the units on the bus, *)
(* SpecEcu for one unit's request handling, SpecFc for a multi-frame       *)
(* response under the tester's frames, SpecSend for send() against a peer  *)
(* that never stops, SpecRcv for the receiver under any inbound frames,    *)
(* SpecLife for start and shutdown); the variables of the other parts stay *)
(* at their initial values.                                                *)
(***************************************************************************)
EXTENDS Integers, Sequences, FiniteSets, TLC

VARIABLES
    now,            \* the clock read by time.time()
    \* ---- ISO-TP
    config,         \* the ISOTPConfig shared by the two endpoints
    snd,            \* ISOTPSender.send: its position and locals
    rcv,            \* ISOTPReceiver: its reassembly state
    bus_to_peer,    \* frames on the bus not yet read by the receiving endpoint
    bus_to_sender,  \* frames on the bus not yet read by the sending endpoint
    delivered,      \* payloads returned by ISOTPReceiver.receive_frame
    tx_log,         \* every frame the sender put on the bus, in order
    fc_log,         \* every frame the peer put on the bus for the sender, in order
    fc_seen,        \* Flow-Control frames read by _wait_for_flow_control
    \* ---- UDS engine
    uds,            \* UDSServiceHandler: session, security, seed, attempts, tables
    uds_last,       \* the last request processed: what was asked, seen and answered
    \* ---- fault registry
    dtc,            \* DTCManager: the codes in insertion order, the MIL, the cycle count
    dtc_last,       \* the last registry operation and the registry before it
    \* ---- sensor model
    veh,            \* VehicleSimulator: engine state, sensors, drive cycle
    veh_last,       \* the last call of the sensor model: which, with what argument
    \* ---- OBD service handler
    obd_last,       \* the last request OBDServiceHandler.process got and its answer
    \* ---- DTC byte codec
    codec,          \* a code, its two bytes from to_bytes, and the code read back
    \* ---- the units on the shared bus
    ecus,           \* per MockECU: the frames its socket holds, its handlers' state
    can_bus,        \* every frame put on the bus, in order, with who sent it
    \* ---- start and shutdown
    life,           \* MockOBDSystem: each unit's flag, bus and two threads; stop()
    thr,            \* the simulation thread inside update(), a caller inside
                    \* start_engine() or stop_engine(): their positions and locals
    \* ---- frames handed to the receiver
    inbound         \* each frame receive_frame got: when, and what it did with it

tpVars == <<config, snd, rcv, bus_to_peer, bus_to_sender, delivered, tx_log, fc_log, fc_seen>>

udsVars == <<uds, uds_last>>

dtcVars == <<dtc, dtc_last>>

vehVars == <<veh, veh_last>>

obdVars == <<obd_last>>

codecVars == <<codec>>

ecuVars == <<ecus, can_bus>>

lifeVars == <<life, thr>>

inVars == <<inbound>>

vars == <<now, tpVars, udsVars, dtcVars, vehVars, obdVars, codecVars, ecuVars, lifeVars, inVars>>

----------------------------------------------------------------------------
(* Byte-string helpers: Python slicing on sequences.                       *)

Min(a, b) == IF a < b THEN a ELSE b

Max(a, b) == IF a > b THEN a ELSE b

\* s[a:b] of Python, 0 <= a
Slice(s, a, b) == SubSeq(s, a + 1, Min(b, Len(s)))

\* s[a:] of Python
SliceFrom(s, a) == SubSeq(s, a + 1, Len(s))

\* bytes([0x00] * n)
Zeros(n) == [i \in 1..n |-> 0]

----------------------------------------------------------------------------
(* ISO-TP frame codec                                                      *)

CAN_DLC == 8

SINGLE_MAX_DATA == 7

FIRST_DATA_LEN == 6

CONSEC_DATA_LEN == 7

ISOTP_MAX_LENGTH == 4095

SEQ_MODULUS == 16

FlowStatus_CONTINUE_TO_SEND == 0

FlowStatus_WAIT == 1

FlowStatus_OVERFLOW == 2

\* frame += bytes([0x00] * (8 - len(frame))) when padding and len(frame) < 8
Pad(frame, padding) ==
    IF padding /\ Len(frame) < CAN_DLC THEN frame \o Zeros(CAN_DLC - Len(frame)) ELSE frame

\* A raised exception is the record with ok = FALSE.
Raise == [ok |-> FALSE, frame_type |-> "NONE", data |-> <<>>]

Parsed(t, d) == [ok |-> TRUE, frame_type |-> t, data |-> d]

\* A faulty variant of the parser below: the length nibble of a Single frame is ignored.
ISOTPFrame_parse_lossy(data) ==
    IF Len(data) = 0 THEN Raise
    ELSE LET pci_byte == data[1]
             frame_type_nibble == (pci_byte \div 16) * 16
         IN  CASE frame_type_nibble = 0 -> Parsed("SINGLE_FRAME", SliceFrom(data, 1))
               [] frame_type_nibble = 16 ->
                    IF Len(data) < 2 THEN Raise ELSE Parsed("FIRST_FRAME", SliceFrom(data, 2))
               [] frame_type_nibble = 32 -> Parsed("CONSECUTIVE_FRAME", SliceFrom(data, 1))
               [] frame_type_nibble = 48 -> Parsed("FLOW_CONTROL", Slice(data, 1, 3))
               [] OTHER -> Raise

ISOTPFrame_parse(data) ==
    IF Len(data) = 0 THEN Raise
    ELSE LET pci_byte == data[1]
             frame_type_nibble == (pci_byte \div 16) * 16
         IN  CASE frame_type_nibble = 0 ->
                    LET length == pci_byte % 16
                    IN  Parsed("SINGLE_FRAME", Slice(data, 1, 1 + length))
               [] frame_type_nibble = 16 ->
                    \* data[1] raises IndexError on a one-byte frame
                    IF Len(data) < 2 THEN Raise ELSE Parsed("FIRST_FRAME", SliceFrom(data, 2))
               [] frame_type_nibble = 32 -> Parsed("CONSECUTIVE_FRAME", SliceFrom(data, 1))
               [] frame_type_nibble = 48 -> Parsed("FLOW_CONTROL", Slice(data, 1, 3))
               [] OTHER -> Raise

\* The created frame, or <<>> (no frame) together with ok = FALSE when it raises.
create_single_frame(data, padding) ==
    IF Len(data) > SINGLE_MAX_DATA THEN [ok |-> FALSE, frame |-> <<>>]
    ELSE [ok |-> TRUE, frame |-> Pad(<<Len(data)>> \o data, padding)]

create_first_frame(total_length, data, padding) ==
    IF total_length > ISOTP_MAX_LENGTH THEN [ok |-> FALSE, frame |-> <<>>]
    ELSE LET pci_high == 16 + ((total_length \div 256) % 16)
             pci_low == total_length % 256
         IN  [ok |-> TRUE,
              frame |-> Pad(<<pci_high, pci_low>> \o Slice(data, 0, FIRST_DATA_LEN), padding)]

create_consecutive_frame(seq_num, data, padding) ==
    Pad(<<32 + (seq_num % 16)>> \o Slice(data, 0, CONSEC_DATA_LEN), padding)

create_flow_control(flow_status, block_size, stmin, padding) ==
    Pad(<<48 + flow_status, block_size % 256, stmin % 256>>, padding)

----------------------------------------------------------------------------
(* The CAN bus: a message is an arbitration ID and up to 8 data bytes.     *)

ENGINE_request_id == 2016

ENGINE_response_id == 2024

Message(id, data) == [arbitration_id |-> id, data |-> data]

\* The sending endpoint is built as ISOTPSender(bus, tx_id, rx_id), the
\* receiving endpoint as ISOTPReceiver(bus, tx_id = sender's rx_id, rx_id =
\* sender's tx_id).
snd_tx_id == ENGINE_response_id

snd_rx_id == ENGINE_request_id

rcv_tx_id == snd_rx_id

rcv_rx_id == snd_tx_id

----------------------------------------------------------------------------
(* UDS engine (UDSServiceHandler)                                          *)

DiagnosticSession_DEFAULT == 1

DiagnosticSession_PROGRAMMING == 2

DiagnosticSession_EXTENDED == 3

DiagnosticSession_SAFETY_SYSTEM == 4

SecurityLevel_LOCKED == 0

SecurityLevel_LEVEL_1 == 1

SecurityLevel_LEVEL_2 == 2

\* self.session_timeout = 5.0 (S3), in milliseconds
SESSION_TIMEOUT_MS == 5000

MAX_SECURITY_ATTEMPTS == 3

\* A 32-bit integer is the pair <<high 16 bits, low 16 bits>>.
Word32(hi, lo) == <<hi, lo>>

\* expected_key = self.current_seed ^ 0x12345678
KEY_CONSTANT == Word32(4660, 22136)

RECURSIVE BitXor(_, _, _)
\* a ^ b on the low `bits` bits
BitXor(a, b, bits) ==
    IF bits = 0 THEN 0
    ELSE ((a + b) % 2) + 2 * BitXor(a \div 2, b \div 2, bits - 1)

\* a ^ b on 32-bit integers
Xor32(a, b) == Word32(BitXor(a[1], b[1], 16), BitXor(a[2], b[2], 16))

\* int.from_bytes(b, 'big') of four bytes
IntFromBytes4(b) == Word32(b[1] * 256 + b[2], b[3] * 256 + b[4])

\* n.to_bytes(4, 'big')
ToBytes4(n) == <<n[1] \div 256, n[1] % 256, n[2] \div 256, n[2] % 256>>

\* A faulty variant: the key expected is the seed itself.
ExpectedKey_identity(seed) == seed

ExpectedKey(seed) == Xor32(seed, KEY_CONSTANT)

\* The data identifiers modelled, of the ten that _initialize_dids sets up.
InitialDids == (256 :> <<0, 1>>) @@ (257 :> <<0, 2>>)

\* The state after __init__. current_seed is <<>> for None, <<s>> for seed s.
UdsInit ==
    [current_session |-> DiagnosticSession_DEFAULT,
     security_level |-> SecurityLevel_LOCKED,
     session_start_time |-> 0,
     current_seed |-> <<>>,
     security_attempts |-> 0,
     io_controls |-> << >>,
     active_routines |-> << >>,
     dids |-> InitialDids]

\* What a handler gives back: the engine state, the response (kind "bytes",
\* "None" or "raise" for an exception that leaves the handler) and whether
\* dtc_manager.clear_dtcs was called.
Reply(u, bytes) == [uds |-> u, kind |-> "bytes", response |-> bytes, clear |-> FALSE]

ReplyNone(u) == [uds |-> u, kind |-> "None", response |-> <<>>, clear |-> FALSE]

ReplyRaise(u) == [uds |-> u, kind |-> "raise", response |-> <<>>, clear |-> FALSE]

negative_response(service, nrc) == <<127, service, nrc>>

\* A faulty variant: the timeout reverts the session but not the security level.
SessionAfterTimeoutCheck_keepSecurity(u, service, t) ==
    IF service # 62 /\ u.current_session # DiagnosticSession_DEFAULT
       /\ t - u.session_start_time > SESSION_TIMEOUT_MS
    THEN [u EXCEPT !.current_session = DiagnosticSession_DEFAULT]
    ELSE u

\* The check at the start of process(): the state the service handler sees.
SessionAfterTimeoutCheck(u, service, t) ==
    IF service # 62 /\ u.current_session # DiagnosticSession_DEFAULT
       /\ t - u.session_start_time > SESSION_TIMEOUT_MS
    THEN [u EXCEPT !.current_session = DiagnosticSession_DEFAULT,
                   !.security_level = SecurityLevel_LOCKED]
    ELSE u

service_10_diagnostic_session(u, request, t) ==
    IF Len(request) < 2 THEN Reply(u, negative_response(16, 19))
    ELSE LET session_type == request[2]
         IN  IF session_type \notin {1, 2, 3, 4} THEN Reply(u, negative_response(16, 18))
             ELSE Reply([u EXCEPT !.current_session = session_type,
                                  !.session_start_time = t,
                                  !.security_level =
                                      IF session_type # DiagnosticSession_EXTENDED
                                      THEN SecurityLevel_LOCKED ELSE @],
                        <<80, session_type, 0, 50, 1, 244>>)

service_11_ecu_reset(u, request) ==
    IF Len(request) < 2 THEN Reply(u, negative_response(17, 19))
    ELSE IF request[2] \notin {1, 2, 3} THEN Reply(u, negative_response(17, 18))
    ELSE Reply(u, <<81, request[2]>>)

service_14_clear_dtc(u, request) ==
    IF Len(request) < 4 THEN Reply(u, negative_response(20, 19))
    ELSE LET dtc_group == request[2] * 65536 + request[3] * 256 + request[4]
         IN  [Reply(u, <<84>>) EXCEPT !.clear = (dtc_group = 16777215)]

service_22_read_data_by_id(u, request) ==
    IF Len(request) < 3 THEN Reply(u, negative_response(34, 19))
    ELSE LET did == request[2] * 256 + request[3]
         IN  IF did \notin DOMAIN u.dids THEN Reply(u, negative_response(34, 49))
             ELSE Reply(u, <<98, request[2], request[3]>> \o u.dids[did])

\* A faulty variant: one attempt too many is allowed.
AttemptsExceeded_offByOne(u) == u.security_attempts > MAX_SECURITY_ATTEMPTS

\* if self.security_attempts >= self.max_security_attempts
AttemptsExceeded(u) == u.security_attempts >= MAX_SECURITY_ATTEMPTS

\* The assignments of the "correct key" branch.
AcceptKey(u, level) ==
    [u EXCEPT !.security_level = level, !.security_attempts = 0, !.current_seed = <<>>]

\* The assignments of the "incorrect key" branch.
RejectKey(u) == [u EXCEPT !.security_attempts = @ + 1, !.current_seed = <<>>]

\* The send-key branch on a matching key: SecurityLevel(level) raises
\* ValueError for a level that is no member of the enumeration.
\* A faulty variant: a seed request never counts as already unlocked.
AlreadyUnlocked_never(u, level) == FALSE

\* if self.security_level.value >= level
AlreadyUnlocked(u, level) == u.security_level >= level

service_27_security_access(u, request, fresh_seed) ==
    IF Len(request) < 2 THEN Reply(u, negative_response(39, 19))
    ELSE LET sub_function == request[2]
         IN  IF sub_function % 2 = 1
             THEN LET level == (sub_function + 1) \div 2
                  IN  IF AlreadyUnlocked(u, level)
                      THEN Reply(u, <<103, sub_function, 0, 0, 0, 0>>)
                      ELSE IF AttemptsExceeded(u)
                      THEN Reply(u, negative_response(39, 54))
                      ELSE Reply([u EXCEPT !.current_seed = <<fresh_seed>>],
                                 <<103, sub_function>> \o ToBytes4(fresh_seed))
             ELSE IF Len(request) < 6 THEN Reply(u, negative_response(39, 19))
             ELSE LET level == sub_function \div 2
                      provided_key == IntFromBytes4(SubSeq(request, 3, 6))
                  IN  IF u.current_seed = <<>> THEN Reply(u, negative_response(39, 36))
                      ELSE IF provided_key = ExpectedKey(u.current_seed[1])
                      THEN IF level \notin {SecurityLevel_LOCKED, SecurityLevel_LEVEL_1,
                                            SecurityLevel_LEVEL_2}
                           THEN ReplyRaise(u)
                           ELSE Reply(AcceptKey(u, level), <<103, sub_function>>)
                      ELSE Reply(RejectKey(u), negative_response(39, 53))

service_28_communication_control(u, request) ==
    IF Len(request) < 3 THEN Reply(u, negative_response(40, 19))
    ELSE Reply(u, <<104, request[2]>>)

\* A faulty variant: the security level is not looked at.
service_2E_write_data_by_id_unchecked(u, request) ==
    IF Len(request) < 4 THEN Reply(u, negative_response(46, 19))
    ELSE LET did == request[2] * 256 + request[3]
             data == SliceFrom(request, 3)
         IN  IF did \notin DOMAIN u.dids THEN Reply(u, negative_response(46, 49))
             ELSE Reply([u EXCEPT !.dids[did] = data], <<110, request[2], request[3]>>)

service_2E_write_data_by_id(u, request) ==
    IF Len(request) < 4 THEN Reply(u, negative_response(46, 19))
    ELSE IF u.security_level = SecurityLevel_LOCKED THEN Reply(u, negative_response(46, 51))
    ELSE LET did == request[2] * 256 + request[3]
             data == SliceFrom(request, 3)
         IN  IF did \notin DOMAIN u.dids THEN Reply(u, negative_response(46, 49))
             ELSE Reply([u EXCEPT !.dids[did] = data], <<110, request[2], request[3]>>)

\* dict update and deletion on a function
DictSet(d, k, v) == [x \in (DOMAIN d) \cup {k} |-> IF x = k THEN v ELSE d[x]]

DictDel(d, k) ==
    IF (DOMAIN d) \ {k} = {} THEN << >> ELSE [x \in (DOMAIN d) \ {k} |-> d[x]]

service_2F_io_control(u, request) ==
    IF Len(request) < 4 THEN Reply(u, negative_response(47, 19))
    ELSE IF u.current_session # DiagnosticSession_EXTENDED
    THEN Reply(u, negative_response(47, 127))
    ELSE LET did == request[2] * 256 + request[3]
             control_param == request[4]
             control_state == IF Len(request) > 4 THEN request[5] ELSE 0
         IN  Reply([u EXCEPT !.io_controls =
                        IF control_param = 0 THEN DictDel(@, did)
                        ELSE DictSet(@, did, control_state # 0)],
                   <<111, request[2], request[3], control_param>>)

service_31_routine_control(u, request) ==
    IF Len(request) < 4 THEN Reply(u, negative_response(49, 19))
    ELSE LET sub_function == request[2]
             routine_id == request[3] * 256 + request[4]
         IN  CASE sub_function = 1 ->
                    IF u.current_session = DiagnosticSession_DEFAULT
                    THEN Reply(u, negative_response(49, 127))
                    ELSE Reply([u EXCEPT !.active_routines = DictSet(@, routine_id, "running")],
                               <<113, 1, request[3], request[4], 0>>)
               [] sub_function = 2 ->
                    Reply([u EXCEPT !.active_routines =
                               IF routine_id \in DOMAIN @
                               THEN DictSet(@, routine_id, "stopped") ELSE @],
                          <<113, 2, request[3], request[4], 0>>)
               [] sub_function = 3 ->
                    Reply(u, <<113, 3, request[3], request[4],
                               IF routine_id \in DOMAIN u.active_routines THEN 0 ELSE 1>>)
               [] OTHER -> Reply(u, negative_response(49, 18))

service_34_request_download(u, request) ==
    IF u.current_session # DiagnosticSession_PROGRAMMING
    THEN Reply(u, negative_response(52, 127))
    ELSE IF u.security_level = SecurityLevel_LOCKED THEN Reply(u, negative_response(52, 51))
    ELSE Reply(u, <<116, 32, 16, 0>>)

service_36_transfer_data(u, request) ==
    IF Len(request) < 2 THEN Reply(u, negative_response(54, 19))
    ELSE Reply(u, <<118, request[2]>>)

service_37_transfer_exit(u, request) == Reply(u, <<119>>)

service_3E_tester_present(u, request, t) ==
    IF Len(request) < 2 THEN Reply(u, negative_response(62, 19))
    ELSE LET refreshed == [u EXCEPT !.session_start_time = t]
         IN  IF request[2] = 0 THEN Reply(refreshed, <<126, 0>>) ELSE ReplyNone(refreshed)

service_85_control_dtc_setting(u, request) ==
    IF Len(request) < 2 THEN Reply(u, negative_response(133, 19))
    ELSE IF u.current_session # DiagnosticSession_EXTENDED
    THEN Reply(u, negative_response(133, 127))
    ELSE Reply(u, <<197, request[2]>>)

\* The routing of process(), on the state left by the timeout check.
\* Service 0x19 (read DTC information) is not modelled: no request of the
\* model uses it.
uds_dispatch(u, request, t, fresh_seed) ==
    LET service == request[1]
    IN  CASE service = 16 -> service_10_diagnostic_session(u, request, t)
          [] service = 17 -> service_11_ecu_reset(u, request)
          [] service = 20 -> service_14_clear_dtc(u, request)
          [] service = 34 -> service_22_read_data_by_id(u, request)
          [] service = 39 -> service_27_security_access(u, request, fresh_seed)
          [] service = 40 -> service_28_communication_control(u, request)
          [] service = 46 -> service_2E_write_data_by_id(u, request)
          [] service = 47 -> service_2F_io_control(u, request)
          [] service = 49 -> service_31_routine_control(u, request)
          [] service = 52 -> service_34_request_download(u, request)
          [] service = 54 -> service_36_transfer_data(u, request)
          [] service = 55 -> service_37_transfer_exit(u, request)
          [] service = 62 -> service_3E_tester_present(u, request, t)
          [] service = 133 -> service_85_control_dtc_setting(u, request)
          [] OTHER -> Reply(u, negative_response(service, 17))

\* UDSServiceHandler.process(request) at time t.
uds_process(u, request, t, fresh_seed) ==
    IF Len(request) < 1 THEN ReplyNone(u)
    ELSE uds_dispatch(SessionAfterTimeoutCheck(u, request[1], t), request, t, fresh_seed)

----------------------------------------------------------------------------
(* The fault registry (DTCManager)                                         *)

DTCState_PENDING == "pending"

DTCState_CONFIRMED == "confirmed"

DTCState_PERMANENT == "permanent"

DTCState_HISTORY == "history"

\* self.pending_to_confirmed_threshold
PENDING_TO_CONFIRMED_THRESHOLD == 2

\* self.healing_drive_cycles
HEALING_DRIVE_CYCLES == 40

\* 600 seconds are assumed per drive cycle
HEALING_CYCLE_MS == 600000

\* _cleanup_history(max_history=10)
MAX_HISTORY == 10

\* A code is its letter and its four characters: "P0420" is <<"P","0","4","2","0">>.
P0420 == <<"P", "0", "4", "2", "0">>

P0100 == <<"P", "0", "1", "0", "0">>

P0700 == <<"P", "0", "7", "0", "0">>

P9999 == <<"P", "9", "9", "9", "9">>

\* The catalog. The codes that light the MIL and are emission related:
\* misfire, fuel system, thermostat, catalyst, EVAP, O2 sensors, EGR.
EmissionCodes ==
    {
      <<"P", "0", "3", "0", "0">>, <<"P", "0", "3", "0", "1">>, <<"P", "0", "3", "0", "2">>,
      <<"P", "0", "3", "0", "3">>, <<"P", "0", "3", "0", "4">>, <<"P", "0", "1", "7", "1">>,
      <<"P", "0", "1", "7", "2">>, <<"P", "0", "1", "7", "4">>, <<"P", "0", "1", "7", "5">>,
      <<"P", "0", "1", "2", "8">>, <<"P", "0", "4", "2", "0">>, <<"P", "0", "4", "3", "0">>,
      <<"P", "0", "4", "4", "0">>, <<"P", "0", "4", "4", "2">>, <<"P", "0", "4", "4", "3">>,
      <<"P", "0", "4", "4", "6">>, <<"P", "0", "1", "3", "0">>, <<"P", "0", "1", "3", "1">>,
      <<"P", "0", "1", "3", "2">>, <<"P", "0", "1", "3", "3">>, <<"P", "0", "1", "3", "4">>,
      <<"P", "0", "4", "0", "1">>, <<"P", "0", "4", "0", "2">> }

\* The codes that light the MIL only: MAF/MAP sensors and system voltage
MilOnlyCodes ==
    {
      <<"P", "0", "1", "0", "0">>, <<"P", "0", "1", "0", "1">>, <<"P", "0", "1", "0", "2">>,
      <<"P", "0", "1", "0", "3">>, <<"P", "0", "5", "6", "2">>, <<"P", "0", "5", "6", "3">> }

\* The codes that do neither: transmission and manufacturer specific
PlainCodes ==
    {
      <<"P", "0", "7", "0", "0">>, <<"P", "0", "7", "1", "5">>, <<"P", "0", "7", "2", "0">>,
      <<"P", "1", "0", "0", "0">> }

\* DTC_DEFINITIONS[code] is <<mil_illuminate, is_emission_related>>
DTC_DEFINITIONS ==
    [code \in EmissionCodes \cup MilOnlyCodes \cup PlainCodes |->
        IF code \in EmissionCodes THEN <<TRUE, TRUE>>
        ELSE IF code \in MilOnlyCodes THEN <<TRUE, FALSE>>
        ELSE <<FALSE, FALSE>>]

DtcInit == [dtcs |-> <<>>, mil_on |-> FALSE, drive_cycle_count |-> 0]

\* The position of code in the dict, 0 when it is not a key.
IndexOf(dtcs, code) ==
    IF \E i \in 1..Len(dtcs) : dtcs[i].code = code
    THEN CHOOSE i \in 1..Len(dtcs) : dtcs[i].code = code
    ELSE 0

\* The entries at the positions in keep, in their order.
RECURSIVE KeepAt(_, _, _)
KeepAt(dtcs, keep, i) ==
    IF i > Len(dtcs) THEN <<>>
    ELSE (IF i \in keep THEN <<dtcs[i]>> ELSE <<>>) \o KeepAt(dtcs, keep, i + 1)

\* A faulty variant: the MIL is not recomputed.
update_mil_stale(m) == m

\* _update_mil
update_mil(m) ==
    [m EXCEPT !.mil_on =
        \E i \in 1..Len(m.dtcs) :
            /\ m.dtcs[i].mil_illuminate
            /\ m.dtcs[i].state \in {DTCState_CONFIRMED, DTCState_PERMANENT}]

\* A faulty variant: emission-related codes are not made PERMANENT.
PromotedState_confirmed(d) == DTCState_CONFIRMED

\* A faulty variant: every code is made PERMANENT at the threshold.
PromotedState_permanent(d) == DTCState_PERMANENT

\* The state a PENDING code takes at the threshold
PromotedState(d) ==
    IF d.is_emission_related THEN DTCState_PERMANENT ELSE DTCState_CONFIRMED

\* inject_dtc(code, sensors) at time t; ok is the value returned.
inject_dtc(m, code, t) ==
    IF code \notin DOMAIN DTC_DEFINITIONS THEN [dtc |-> m, ok |-> FALSE]
    ELSE
        LET i == IndexOf(m.dtcs, code)
            old == m.dtcs[i]
            counted == [old EXCEPT !.detection_count = @ + 1, !.last_detected = t]
            updated ==
                IF old.state = DTCState_PENDING
                   /\ counted.detection_count >= PENDING_TO_CONFIRMED_THRESHOLD
                THEN [counted EXCEPT !.state = PromotedState(counted)]
                ELSE counted
            fresh == [code |-> code, state |-> DTCState_PENDING, detection_count |-> 1,
                      last_detected |-> t,
                      mil_illuminate |-> DTC_DEFINITIONS[code][1],
                      is_emission_related |-> DTC_DEFINITIONS[code][2]]
            dtcs2 == IF i # 0 THEN [m.dtcs EXCEPT ![i] = updated]
                     ELSE Append(m.dtcs, fresh)
        IN  [dtc |-> update_mil([m EXCEPT !.dtcs = dtcs2]), ok |-> TRUE]

\* A faulty variant: the HISTORY codes first in dict order are deleted.
cleanup_history_dictOrder(dtcs) ==
    LET hist == { i \in 1..Len(dtcs) : dtcs[i].state = DTCState_HISTORY }
        before(i) == { j \in hist : j < i }
        deleted == { i \in hist : Cardinality(before(i)) < Cardinality(hist) - MAX_HISTORY }
    IN  KeepAt(dtcs, (1..Len(dtcs)) \ deleted, 1)

\* _cleanup_history: when more than MAX_HISTORY codes are in HISTORY, the
\* ones detected longest ago (ties in dict order) are deleted.
cleanup_history(dtcs) ==
    LET hist == { i \in 1..Len(dtcs) : dtcs[i].state = DTCState_HISTORY }
        before(i) == { j \in hist : \/ dtcs[j].last_detected < dtcs[i].last_detected
                                    \/ /\ dtcs[j].last_detected = dtcs[i].last_detected
                                       /\ j < i }
        deleted == { i \in hist : Cardinality(before(i)) < Cardinality(hist) - MAX_HISTORY }
    IN  KeepAt(dtcs, (1..Len(dtcs)) \ deleted, 1)

\* clear_dtcs leaves a PERMANENT code alone unless clear_permanent
SkipsPermanent(d, clear_permanent) ==
    d.state = DTCState_PERMANENT /\ ~clear_permanent

\* The states clear_dtcs moves to HISTORY whatever the flag
ClearedStates == {DTCState_PENDING, DTCState_CONFIRMED}

\* A faulty variant: PERMANENT codes are cleared whatever the flag.
clear_dtcs_demoting(m, clear_permanent) ==
    LET cleared(d) == IF d.state \in ClearedStates \cup {DTCState_PERMANENT}
                      THEN [d EXCEPT !.state = DTCState_HISTORY] ELSE d
        dtcs2 == [i \in 1..Len(m.dtcs) |-> cleared(m.dtcs[i])]
    IN  update_mil([m EXCEPT !.dtcs = cleanup_history(dtcs2)])

\* clear_dtcs(clear_permanent)
clear_dtcs(m, clear_permanent) ==
    LET cleared(d) ==
            IF SkipsPermanent(d, clear_permanent) THEN d
            ELSE IF d.state \in ClearedStates THEN [d EXCEPT !.state = DTCState_HISTORY]
            ELSE IF clear_permanent /\ d.state = DTCState_PERMANENT
                 THEN [d EXCEPT !.state = DTCState_HISTORY]
            ELSE d
        dtcs2 == [i \in 1..Len(m.dtcs) |-> cleared(m.dtcs[i])]
    IN  update_mil([m EXCEPT !.dtcs = cleanup_history(dtcs2)])

\* drive_cycle_complete at time t
drive_cycle_complete(m, t) ==
    LET healed == { i \in 1..Len(m.dtcs) :
                      /\ m.dtcs[i].state = DTCState_PENDING
                      /\ t - m.dtcs[i].last_detected > HEALING_DRIVE_CYCLES * HEALING_CYCLE_MS }
    IN  update_mil([m EXCEPT !.drive_cycle_count = @ + 1,
                             !.dtcs = KeepAt(m.dtcs, (1..Len(m.dtcs)) \ healed, 1)])

\* is_mil_on
is_mil_on(m) == m.mil_on

\* get_dtcs_by_state: the entries in one state, in dict order
get_dtcs_by_state(m, state) == SelectSeq(m.dtcs, LAMBDA d : d.state = state)

get_pending_dtcs(m) == get_dtcs_by_state(m, DTCState_PENDING)

get_confirmed_dtcs(m) == get_dtcs_by_state(m, DTCState_CONFIRMED)

get_permanent_dtcs(m) == get_dtcs_by_state(m, DTCState_PERMANENT)

----------------------------------------------------------------------------
(* DiagnosticTroubleCode.to_bytes and the reading of the two bytes         *)

\* int(c) of one character: its value, -1 where int raises ValueError
DecDigit(c) ==
    CASE c = "0" -> 0 [] c = "1" -> 1 [] c = "2" -> 2 [] c = "3" -> 3 [] c = "4" -> 4
      [] c = "5" -> 5 [] c = "6" -> 6 [] c = "7" -> 7 [] c = "8" -> 8 [] c = "9" -> 9
      [] OTHER -> -1

\* type_map.get(self.code[0], 0)
TypeOf(c) == CASE c = "P" -> 0 [] c = "C" -> 1 [] c = "B" -> 2 [] c = "U" -> 3 [] OTHER -> 0

RECURSIVE BitOr(_, _, _)
\* a | b on the low `bits` bits
BitOr(a, b, bits) ==
    IF bits = 0 THEN 0
    ELSE (IF a % 2 = 1 \/ b % 2 = 1 THEN 1 ELSE 0) + 2 * BitOr(a \div 2, b \div 2, bits - 1)

\* byte1 = (code_type << 6) | (first_digit << 4) | second_digit
Byte1(code_type, first_digit, second_digit) ==
    BitOr(BitOr(code_type * 64, first_digit * 16, 8), second_digit, 8)

\* to_bytes: ok is FALSE where int() raises ValueError
to_bytes(code) ==
    LET digits == SliceFrom(code, 1)
    IN  IF Len(digits) # 4 THEN [ok |-> TRUE, bytes |-> <<0, 0>>]
        ELSE IF \E i \in 1..4 : DecDigit(digits[i]) < 0 THEN [ok |-> FALSE, bytes |-> <<>>]
        ELSE [ok |-> TRUE,
              bytes |-> <<Byte1(TypeOf(code[1]), DecDigit(digits[1]), DecDigit(digits[2])),
                          BitOr(DecDigit(digits[3]) * 16, DecDigit(digits[4]), 8)>>]

\* f"{n:X}" of a nibble
HexChar(n) ==
    CASE n = 0 -> "0" [] n = 1 -> "1" [] n = 2 -> "2" [] n = 3 -> "3" [] n = 4 -> "4"
      [] n = 5 -> "5" [] n = 6 -> "6" [] n = 7 -> "7" [] n = 8 -> "8" [] n = 9 -> "9"
      [] n = 10 -> "A" [] n = 11 -> "B" [] n = 12 -> "C" [] n = 13 -> "D"
      [] n = 14 -> "E" [] n = 15 -> "F"

\* type_map = ['P', 'C', 'B', 'U']
TypeLetter(n) == CASE n = 0 -> "P" [] n = 1 -> "C" [] n = 2 -> "B" [] n = 3 -> "U"

\* The reading of the two bytes of a code by the client
decode_dtc(byte1, byte2) ==
    <<TypeLetter((byte1 \div 64) % 4), HexChar((byte1 \div 16) % 4), HexChar(byte1 % 16),
      HexChar((byte2 \div 16) % 16), HexChar(byte2 % 16)>>

\* The codec with nothing to do
NoCodec == [pc |-> "idle", code |-> <<>>, bytes |-> <<>>, decoded |-> <<>>]

CodecAtRest == codec = NoCodec

\* The codes the registry holds in one of the given states
CodesIn(m, states) ==
    { m.dtcs[i].code : i \in { j \in 1..Len(m.dtcs) : m.dtcs[j].state \in states } }

\* The state and the detection count of code, "absent" and 0 when not held
StateOf(m, code) ==
    IF IndexOf(m.dtcs, code) = 0 THEN "absent" ELSE m.dtcs[IndexOf(m.dtcs, code)].state

CountOf(m, code) ==
    IF IndexOf(m.dtcs, code) = 0 THEN 0 ELSE m.dtcs[IndexOf(m.dtcs, code)].detection_count

\* The record of the last registry operation: which one (op), through which
\* entry point (entry), with which code or flag, what inject_dtc returned,
\* and of the registry before it: the state and count of the injected code,
\* the codes that were PENDING or CONFIRMED, the codes that were PERMANENT.
DtcOp(op, entry, code, clear_permanent, ok, m) ==
    [op |-> op, entry |-> entry, code |-> code, clear_permanent |-> clear_permanent,
     ok |-> ok, pre_state |-> StateOf(m, code), pre_count |-> CountOf(m, code),
     pre_active |-> CodesIn(m, {DTCState_PENDING, DTCState_CONFIRMED}),
     pre_permanent |-> CodesIn(m, {DTCState_PERMANENT})]

NoDtcOp == DtcOp("none", "none", <<>>, FALSE, FALSE, DtcInit)

DtcAtRest ==
    /\ dtc = DtcInit
    /\ dtc_last = NoDtcOp

----------------------------------------------------------------------------
(* The sensor model (VehicleSimulator)                                     *)
(* Fixed point: rpm in 1/min, throttle_position in %, engine_load in 0.1 %,*)
(* temperatures in 0.1 degC, vehicle_speed in 0.01 km/h, distances in m,   *)
(* times in ms.  Divisions round down.                                     *)

EngineState_OFF == "off"

EngineState_CRANKING == "cranking"

EngineState_RUNNING == "running"

EngineState_STALLING == "stalling"

\* config 'rpm_idle'
RPM_IDLE == 750

\* config 'rpm_max'
RPM_MAX == 6500

\* rpm_idle * 0.9, the floor of the running engine
RPM_FLOOR == 675

\* self.gear_ratio * 6 = 3.5 * 6
RPM_PER_KMH == 21

\* the cranking ceiling and the rpm at which cranking ends
CRANK_RPM_MAX == 400

CRANK_RPM_DONE == 300

\* start_engine sets rpm = 100
CRANK_RPM_START == 100

\* self.ambient_temp = 20.0 and SensorData.coolant_temp = 20.0, in 0.1 degC
AMBIENT_TEMP == 200

\* config 'coolant_temp_normal' = 90, in 0.1 degC
COOLANT_TEMP_NORMAL == 900

\* a start below 50 degC is a cold start
COLD_START_TEMP == 500

\* SensorData.catalyst_temp = 400.0, in 0.1 degC
CATALYST_TEMP_INIT == 4000

MonitorNames ==
    {"misfire", "fuel_system", "component", "catalyst", "heated_catalyst",
     "evap_system", "secondary_air", "oxygen_sensor", "oxygen_sensor_heater",
     "egr_system"}

\* DriveCycle(): complete is the set of monitors whose flag is true
DriveCycleInit ==
    [complete |-> {}, idle_time |-> 0, cruise_time |-> 0,
     accel_count |-> 0, decel_count |-> 0, cold_start_count |-> 0]

\* DriveCycle.reset
DriveCycle_reset(dc) == DriveCycleInit

VehInit ==
    [engine_state |-> EngineState_OFF,
     rpm |-> 0, engine_load |-> 0, coolant_temp |-> AMBIENT_TEMP,
     throttle_position |-> 0, vehicle_speed |-> 0,
     distance_traveled |-> 0, distance_with_mil |-> 0, distance_since_clear |-> 0,
     catalyst_temp |-> CATALYST_TEMP_INIT, engine_runtime |-> 0,
     warmups_since_clear |-> 0, mil_status |-> FALSE,
     prev_speed |-> 0, drive_cycle |-> DriveCycleInit]

Clamp(lo, hi, x) == Max(lo, Min(hi, x))

\* _update_running_state(dt): rpm_noise and temp_noise are the two draws of
\* random.gauss that reach the modelled sensors.
update_running_state(v, dt, rpm_noise, temp_noise) ==
    LET target_rpm == RPM_IDLE + ((RPM_MAX - RPM_IDLE) * v.throttle_position) \div 100
        rpm == Clamp(RPM_FLOOR, RPM_MAX,
                     v.rpm + ((target_rpm - v.rpm) * dt) \div 500 + rpm_noise)
        \* base_load * (0.5 + 0.5 * rpm_factor) * (0.7 + 0.3 * speed_factor)
        part == (v.throttle_position * 10 * ((RPM_MAX - RPM_IDLE) + (rpm - RPM_IDLE)))
                    \div (2 * (RPM_MAX - RPM_IDLE))
        load == Clamp(0, 1000,
                      (part * (84000 + 3 * Min(12000, v.vehicle_speed))) \div 120000)
        speed ==
            IF rpm > RPM_IDLE
            THEN LET target_speed == ((rpm - RPM_IDLE) * 100) \div RPM_PER_KMH
                 IN  v.vehicle_speed + ((target_speed - v.vehicle_speed) * dt) \div 1000
            ELSE Max(0, v.vehicle_speed - dt \div 2)
        distance == (speed * dt) \div 360000
        coolant ==
            IF v.coolant_temp < COOLANT_TEMP_NORMAL
            THEN v.coolant_temp + ((2000 + 3 * load) * dt) \div 100000
            ELSE COOLANT_TEMP_NORMAL + temp_noise
        catalyst ==
            IF coolant > 700
            THEN v.catalyst_temp + (((4000 + 2 * load) - v.catalyst_temp) * dt) \div 10000
            ELSE v.catalyst_temp
        speed_change == speed - v.prev_speed
        dc == v.drive_cycle
        dc2 == [dc EXCEPT
                  !.accel_count = IF speed_change > 500 THEN @ + 1 ELSE @,
                  !.decel_count = IF speed_change <= 500 /\ speed_change < -500 THEN @ + 1 ELSE @,
                  !.idle_time = IF speed < 500 THEN @ + dt ELSE @,
                  !.cruise_time = IF speed >= 500 /\ 5000 < speed /\ speed < 8000
                                  THEN @ + dt ELSE @]
    IN  [v EXCEPT !.engine_runtime = @ + dt,
                  !.rpm = rpm,
                  !.engine_load = load,
                  !.vehicle_speed = speed,
                  !.distance_traveled = @ + distance,
                  !.distance_since_clear = @ + distance,
                  !.distance_with_mil = IF v.mil_status THEN @ + distance ELSE @,
                  !.coolant_temp = coolant,
                  !.catalyst_temp = catalyst,
                  !.prev_speed = speed,
                  !.drive_cycle = dc2]

\* _update_readiness_monitors(dt)
update_readiness_monitors(v) ==
    LET dc == v.drive_cycle
        done ==
            (IF v.engine_runtime > 10000 THEN {"component"} ELSE {})
            \cup (IF v.engine_runtime > 30000 /\ v.coolant_temp > 700
                  THEN {"fuel_system"} ELSE {})
            \cup (IF v.engine_runtime > 60000 THEN {"misfire"} ELSE {})
            \cup (IF v.coolant_temp > 800 /\ v.engine_runtime > 45000
                  THEN {"oxygen_sensor", "oxygen_sensor_heater"} ELSE {})
            \cup (IF v.catalyst_temp > 4000 /\ dc.cruise_time > 120000
                  THEN {"catalyst", "heated_catalyst"} ELSE {})
            \cup (IF dc.cruise_time > 60000 /\ dc.idle_time > 30000
                  THEN {"evap_system"} ELSE {})
            \cup (IF dc.cruise_time > 180000 THEN {"egr_system"} ELSE {})
    IN  [v EXCEPT !.drive_cycle.complete = @ \cup done]

\* _update_cranking_state(dt)
update_cranking_state(v, dt) ==
    LET rpm == Min(CRANK_RPM_MAX, v.rpm + (200 * dt) \div 1000)
    IN  IF rpm >= CRANK_RPM_DONE
        THEN LET cold == v.coolant_temp < COLD_START_TEMP
             IN  [v EXCEPT !.engine_state = EngineState_RUNNING,
                           !.rpm = RPM_IDLE,
                           !.drive_cycle.cold_start_count = IF cold THEN @ + 1 ELSE @,
                           !.warmups_since_clear = IF cold THEN @ + 1 ELSE @]
        ELSE [v EXCEPT !.rpm = rpm]

\* _update_off_state(dt)
update_off_state(v, dt) ==
    [v EXCEPT !.coolant_temp = IF @ > AMBIENT_TEMP THEN Max(AMBIENT_TEMP, @ - dt \div 200) ELSE @,
              !.rpm = 0, !.vehicle_speed = 0, !.engine_load = 0, !.engine_runtime = 0]

\* update(dt)
vehicle_update(v, dt, rpm_noise, temp_noise) ==
    IF v.engine_state = EngineState_RUNNING
    THEN update_readiness_monitors(update_running_state(v, dt, rpm_noise, temp_noise))
    ELSE IF v.engine_state = EngineState_CRANKING THEN update_cranking_state(v, dt)
    ELSE IF v.engine_state = EngineState_OFF THEN update_off_state(v, dt)
    ELSE v

\* A faulty variant: the engine is cranked again from any state.
start_engine_always(v) ==
    [v EXCEPT !.engine_state = EngineState_CRANKING, !.rpm = CRANK_RPM_START]

start_engine(v) ==
    IF v.engine_state = EngineState_OFF
    THEN [v EXCEPT !.engine_state = EngineState_CRANKING, !.rpm = CRANK_RPM_START]
    ELSE v

\* A faulty variant: stopping the engine also starts a new drive cycle.
stop_engine_resetting(v) ==
    [v EXCEPT !.engine_state = EngineState_OFF, !.rpm = 0, !.drive_cycle = DriveCycleInit]

stop_engine(v) == [v EXCEPT !.engine_state = EngineState_OFF, !.rpm = 0]

\* set_throttle(position), position in %
set_throttle(v, position) == [v EXCEPT !.throttle_position = Clamp(0, 100, position)]

\* set_speed(speed), speed in km/h
set_speed(v, speed) ==
    [v EXCEPT !.vehicle_speed = Max(0, speed * 100),
              !.rpm = IF speed > 0 /\ v.engine_state = EngineState_RUNNING
                      THEN RPM_IDLE + speed * RPM_PER_KMH ELSE @]

set_rpm(v, rpm) == [v EXCEPT !.rpm = Clamp(0, RPM_MAX, rpm)]

reset_drive_cycle(v) == [v EXCEPT !.drive_cycle = DriveCycle_reset(@)]

\* The record of a call of the sensor model: the method, its argument (dt in
\* ms for update), and the engine state before it
VehOp(op, arg, v) == [op |-> op, arg |-> arg, pre_state |-> v.engine_state]

NoVehOp == [op |-> "none", arg |-> 0, pre_state |-> EngineState_OFF]

VehAtRest == veh = VehInit /\ veh_last = NoVehOp

----------------------------------------------------------------------------
(* The entry points that clear diagnostic information                      *)

\* _mode_04_clear_dtcs: the drive cycle and the three counters are reset
ResetCounters(v) ==
    [reset_drive_cycle(v) EXCEPT !.distance_since_clear = 0,
                                 !.distance_with_mil = 0,
                                 !.warmups_since_clear = 0]

RECURSIVE ExtendAll(_, _)
\* response.extend(dtc.to_bytes()) for each entry of the list in turn; ok is
\* FALSE where a to_bytes raises
ExtendAll(response, list) ==
    IF list = <<>> THEN [ok |-> TRUE, bytes |-> response]
    ELSE LET b == to_bytes(Head(list).code)
         IN  IF ~b.ok THEN [ok |-> FALSE, bytes |-> <<>>]
             ELSE ExtendAll(response \o b.bytes, Tail(list))

\* The body shared by _mode_03_read_dtcs, _mode_07_pending_dtcs and
\* _mode_0A_permanent_dtcs: sid 00 for an empty list, else sid, the count
\* and the two bytes of each entry
read_dtcs_response(sid, list) ==
    IF list = <<>> THEN [ok |-> TRUE, bytes |-> <<sid, 0>>]
    ELSE ExtendAll(<<sid, Len(list)>>, list)

mode_03_read_dtcs(m) ==
    read_dtcs_response(67, get_confirmed_dtcs(m) \o get_permanent_dtcs(m))

mode_07_pending_dtcs(m) == read_dtcs_response(71, get_pending_dtcs(m))

mode_0A_permanent_dtcs(m) == read_dtcs_response(74, get_permanent_dtcs(m))

\* The modes of process modelled here: 03, 04, 07, 0A and the modes process
\* knows nothing of; modes 01, 02, 06, 08 and 09 are not among the requests.
ObdModes == {3, 4, 7, 10} \cup {0, 5} \cup (11..255)

\* if len(request) < 2: return None
TooShort(request) == Len(request) < 2

\* OBDServiceHandler.process: the registry and the vehicle after it, what
\* it returned ("None", "bytes", or "raise" for an exception), and cleared
\* telling whether _mode_04_clear_dtcs ran.
obd_process(m, v, request) ==
    LET same(kind, response) ==
            [dtc |-> m, veh |-> v, kind |-> kind, response |-> response, cleared |-> FALSE]
        read(r) == IF r.ok THEN same("bytes", r.bytes) ELSE same("raise", <<>>)
    IN  IF TooShort(request) THEN same("None", <<>>)
        ELSE CASE request[1] = 3 -> read(mode_03_read_dtcs(m))
               [] request[1] = 4 ->
                      [dtc |-> clear_dtcs(m, FALSE), veh |-> ResetCounters(v),
                       kind |-> "bytes", response |-> <<68>>, cleared |-> TRUE]
               [] request[1] = 7 -> read(mode_07_pending_dtcs(m))
               [] request[1] = 10 -> read(mode_0A_permanent_dtcs(m))
               [] request[1] \in ObdModes \ {3, 4, 7, 10} -> same("bytes", <<127, request[1], 17>>)

\* The record of the last request handed to process: the request and the
\* answer
ObdAnswer(request, r) == [request |-> request, kind |-> r.kind, response |-> r.response]

NoObdRequest == [request |-> <<>>, kind |-> "None", response |-> <<>>]

ObdAtRest == obd_last = NoObdRequest

----------------------------------------------------------------------------
(* The units of MockOBDSystem on the shared CAN interface.  Each MockECU   *)
(* opens its own socket on the interface, so a frame put on the bus is     *)
(* queued on the socket of every other party.                              *)

FUNCTIONAL_ADDRESS == 2015

TRANSMISSION_request_id == 2017

TRANSMISSION_response_id == 2025

ABS_request_id == 2018

ABS_response_id == 2026

ECUIdentity(name, request_id, response_id, supports_obd, supports_uds) ==
    [name |-> name, request_id |-> request_id, response_id |-> response_id,
     functional_address |-> FUNCTIONAL_ADDRESS,
     supports_obd |-> supports_obd, supports_uds |-> supports_uds]

ENGINE_ECU ==
    ECUIdentity("Engine Control Unit", ENGINE_request_id, ENGINE_response_id, TRUE, TRUE)

TRANSMISSION_ECU ==
    ECUIdentity("Transmission Control Unit", TRANSMISSION_request_id,
                TRANSMISSION_response_id, FALSE, TRUE)

ABS_ECU == ECUIdentity("ABS/ESP Control Unit", ABS_request_id, ABS_response_id, FALSE, TRUE)

\* The identities in registration order (the dict of the coordinator keeps
\* insertion order).
ecu_identities == <<ENGINE_ECU, TRANSMISSION_ECU, ABS_ECU>>

Units == DOMAIN ecu_identities

matches_address(identity, address) ==
    address = identity.request_id \/ address = identity.functional_address

\* The index of the first registered unit matching the address, 0 for None.
get_ecu_for_address(address) ==
    LET matching == {i \in Units : matches_address(ecu_identities[i], address)}
    IN  IF matching = {} THEN 0
        ELSE CHOOSE i \in matching : \A j \in matching : i <= j

get_all_ecus_for_broadcast == [i \in Units |-> i]

\* One MockECU: the frames waiting on its socket, its service handlers' state
\* and, as a record kept for the properties, the payloads it has handed to
\* _process_service with how the handler ended and what was sent in answer.
MockECU_init ==
    [rxq |-> <<>>, handled |-> <<>>, uds |-> UdsInit, dtc |-> DtcInit, veh |-> VehInit]

EcuAtRest == ecus = [i \in Units |-> MockECU_init] /\ can_bus = <<>>

\* What receive_frame returns for a frame that starts a message: the payload
\* of a Single frame, None otherwise (a First frame only opens a reception).
unit_receive_frame(identity, msg) ==
    IF msg.arbitration_id # identity.request_id THEN [ok |-> FALSE, payload |-> <<>>]
    ELSE LET p == ISOTPFrame_parse(msg.data)
         IN  IF p.ok /\ p.frame_type = "SINGLE_FRAME"
             THEN [ok |-> TRUE, payload |-> p.data]
             ELSE [ok |-> FALSE, payload |-> <<>>]

\* _process_service at time t: the unit after the request, and its answer.
\* fresh_seed is what random.randint returns if the request draws a seed.
process_service(e, payload, t, fresh_seed) ==
    LET out(e2, kind, response) == [ecu |-> e2, kind |-> kind, response |-> response]
    IN  IF Len(payload) < 1 THEN out(e, "None", <<>>)
        ELSE IF 1 <= payload[1] /\ payload[1] <= 10
        THEN LET r == obd_process(e.dtc, e.veh, payload)
             IN  out([e EXCEPT !.dtc = r.dtc, !.veh = r.veh], r.kind, r.response)
        ELSE IF payload[1] >= 16
        THEN LET r == uds_process(e.uds, payload, t, fresh_seed)
             IN  out([e EXCEPT !.uds = r.uds,
                               !.dtc = IF r.clear THEN clear_dtcs(e.dtc, FALSE) ELSE e.dtc],
                     r.kind, r.response)
        ELSE out(e, "bytes", <<127, payload[1], 17>>)

\* A frame on the bus and its sender: 0 for the tester, else the unit.
BusFrame(sender, msg) ==
    [sender |-> sender, arbitration_id |-> msg.arbitration_id, data |-> msg.data]

\* The sockets after a frame is put on the bus: every socket but the
\* sender's own queues it.
Deliver(es, sender, msg) ==
    [i \in Units |-> IF i = sender THEN es[i] ELSE [es[i] EXCEPT !.rxq = Append(@, msg)]]

----------------------------------------------------------------------------
(* Start and shutdown of MockOBDSystem. Each unit has the flag running, its *)
(* bus, and two threads: _run (handler) and _simulation_loop (sensor tick). *)
(* A thread is at the test of its while loop ("test"), inside the loop      *)
(* body, or has left the loop ("exited"); before start() it is "none".      *)

MockECU_constructed ==
    [running |-> FALSE, engine |-> FALSE, bus_open |-> TRUE,
     run_pc |-> "none", sim_pc |-> "none"]

\* MockECU.start
MockECU_start(e) ==
    [e EXCEPT !.running = TRUE, !.run_pc = "test", !.sim_pc = "test", !.engine = TRUE]

\* The three statements of MockECU.stop, in order.
MockECU_stop_step(e, step) ==
    CASE step = 1 -> [e EXCEPT !.running = FALSE]
      [] step = 2 -> [e EXCEPT !.engine = FALSE]
      [] step = 3 -> [e EXCEPT !.bus_open = FALSE]

StopSteps == 3

\* phase: "constructed", "started", "stopping" (inside MockOBDSystem.stop, at
\* statement stop_step of the stop of unit stop_unit) or "stopped" (stop has
\* returned). late: what the unit threads did after stop returned (a record
\* kept for the properties).
LifeInit ==
    [phase |-> "constructed", stop_unit |-> 1, stop_step |-> 1,
     units |-> [i \in Units |-> MockECU_constructed],
     late |-> {}]

\* Two threads on one VehicleSimulator. upd_pc: the statement of update() the
\* simulation thread is at ("idle" between two calls), upd_dt its argument,
\* upd_rpm the sensors.rpm it read for the cranking sum, updates the calls so
\* far. ctl_pc: the statement of start_engine() or stop_engine() the calling
\* thread is at. stop_returned: stop_engine() has returned and start_engine()
\* was not called since. raced: that stop_engine() assigned the engine state
\* while update() was between the cranking test and its own assignment (two
\* records kept for the properties).
ThrInit ==
    [upd_pc |-> "idle", upd_dt |-> 0, upd_rpm |-> 0, updates |-> 0,
     ctl_pc |-> "idle", stop_returned |-> FALSE, raced |-> FALSE]

LifeAtRest == life = LifeInit /\ thr = ThrInit

ThreadAlive(pc) == pc \notin {"none", "exited"}

InboundAtRest == inbound = <<>>

----------------------------------------------------------------------------
(* Records of the UDS engine at rest                                       *)

\* The record of the last request: the request, the time since the request
\* before it (idle), the session before the timeout check (pre_session), the
\* session and security level the service handler saw (disp_*), the seed
\* outstanding and the DID table before (pre_seed, pre_dids), the answer,
\* the number of wrong keys answered since the last accepted key
\* (wrong_run), and whether the request before this one was a Tester Present
\* that came more than S3 after its predecessor in a non-DEFAULT session
\* (after_late_tp), and the sub-function of the seed request that issued the
\* seed outstanding after this request and before it (seed_sub, pre_seed_sub;
\* 0 with no seed outstanding).
NoRequest ==
    [request |-> <<>>, time |-> 0, idle |-> 0,
     pre_session |-> DiagnosticSession_DEFAULT,
     disp_session |-> DiagnosticSession_DEFAULT,
     disp_security |-> SecurityLevel_LOCKED,
     pre_seed |-> <<>>, pre_dids |-> InitialDids,
     kind |-> "None", response |-> <<>>, wrong_run |-> 0, after_late_tp |-> FALSE,
     seed_sub |-> 0, pre_seed_sub |-> 0]

UdsAtRest ==
    /\ uds = UdsInit
    /\ uds_last = NoRequest

----------------------------------------------------------------------------
(* ISOTPConfig and the inputs of the ISO-TP part                           *)

DEFAULT_STMIN == 0

DEFAULT_BLOCK_SIZE == 0

DEFAULT_TIMEOUT_MS == 1000

RECV_TIMEOUT_MS == 100

ISOTPConfig(stmin, block_size, padding) ==
    [stmin |-> stmin, block_size |-> block_size,
     timeout_ms |-> DEFAULT_TIMEOUT_MS, padding |-> padding]

DefaultConfig == ISOTPConfig(DEFAULT_STMIN, DEFAULT_BLOCK_SIZE, TRUE)

\* The configurations tried: the default one, three with a non-zero block
\* size, and one without padding.
Configs ==
    { DefaultConfig,
      ISOTPConfig(10, 4, TRUE),
      ISOTPConfig(0, 1, TRUE),
      ISOTPConfig(0, 2, TRUE),
      ISOTPConfig(0, 0, FALSE) }

\* Every payload length up to MaxLen, and some longer ones: around the
\* first sequence-number wrap (6 + 15 * 7 = 111 bytes fill sequence numbers
\* 1..15), 200 bytes, and lengths that need the high length nibble.
MaxLen == 23

LongLens == {111, 112, 113, 118, 119, 200, 260}

PayloadLens == (0..MaxLen) \cup LongLens

\* Byte i of the payload of length n: neighbouring bytes differ and no byte
\* is the padding byte.
PayloadOf(n) == [i \in 1..n |-> 1 + ((37 * i + n) % 255)]

Payloads == { PayloadOf(n) : n \in PayloadLens }

----------------------------------------------------------------------------
(* ISOTPSender                                                             *)

SndIdle(payload) ==
    [pc |-> "idle", payload |-> payload, offset |-> 0, seq_num |-> 1,
     start_time |-> 0, result |-> "none"]

SndReturn(s, ok) == [s EXCEPT !.pc = "done", !.result = IF ok THEN "True" ELSE "False"]

\* A faulty variant: the sequence number wraps one step early.
SenderNextSeq_mod15(seq_num) == (seq_num + 1) % 15

\* seq_num = (seq_num + 1) % 16
SenderNextSeq(seq_num) == (seq_num + 1) % SEQ_MODULUS

\* A faulty variant: bus.recv returns None at once, no time passes.
RecvTimeout_immediate(t) == t

\* bus.recv(timeout=0.1) with nothing to read: it returns None 100 ms later.
RecvTimeout(t) == t + RECV_TIMEOUT_MS

\* What one message read in _wait_for_flow_control does to the wait loop:
\* "cts" (return True), "abort" (return False) or "continue".
FlowControlOutcome(msg) ==
    IF msg.arbitration_id # snd_rx_id THEN "continue"
    ELSE LET p == ISOTPFrame_parse(msg.data)
         IN  IF ~p.ok THEN "continue"
             ELSE IF p.frame_type # "FLOW_CONTROL" THEN "continue"
             ELSE LET flow_status ==
                          IF Len(p.data) > 0 THEN p.data[1] ELSE FlowStatus_CONTINUE_TO_SEND
                  IN  IF flow_status = FlowStatus_CONTINUE_TO_SEND THEN "cts"
                      ELSE IF flow_status = FlowStatus_WAIT THEN "continue"
                      ELSE "abort"

\* send(): a payload of at most 7 bytes goes out as a Single frame, a longer
\* one starts _send_multi_frame with the First frame.
SendStart ==
    /\ snd.pc = "idle"
    /\ IF Len(snd.payload) <= SINGLE_MAX_DATA
       THEN LET f == create_single_frame(snd.payload, config.padding)
            IN  /\ bus_to_peer' = Append(bus_to_peer, Message(snd_tx_id, f.frame))
                /\ tx_log' = Append(tx_log, f.frame)
                /\ snd' = SndReturn(snd, TRUE)
       ELSE LET ff == create_first_frame(Len(snd.payload),
                                         Slice(snd.payload, 0, FIRST_DATA_LEN), config.padding)
            IN  IF ~ff.ok
                THEN /\ snd' = SndReturn(snd, FALSE)
                     /\ UNCHANGED <<bus_to_peer, tx_log>>
                ELSE /\ bus_to_peer' = Append(bus_to_peer, Message(snd_tx_id, ff.frame))
                     /\ tx_log' = Append(tx_log, ff.frame)
                     /\ snd' = [snd EXCEPT !.pc = "wait_fc", !.start_time = now]
    /\ UNCHANGED <<now, config, rcv, bus_to_sender, delivered, fc_log, fc_seen, udsVars, dtcVars, vehVars, obdVars, codecVars, ecuVars, lifeVars, inVars>>

\* One iteration of the loop of _wait_for_flow_control.
WaitForFlowControl ==
    /\ snd.pc = "wait_fc"
    /\ IF ~(now - snd.start_time < config.timeout_ms)
       THEN /\ snd' = SndReturn(snd, FALSE)
            /\ UNCHANGED <<now, bus_to_sender, fc_seen>>
       ELSE IF bus_to_sender = <<>>
       THEN \* bus.recv(timeout=0.1) returns None
            /\ now' = RecvTimeout(now)
            /\ UNCHANGED <<snd, bus_to_sender, fc_seen>>
       ELSE LET msg == Head(bus_to_sender)
                outcome == FlowControlOutcome(msg)
            IN  /\ bus_to_sender' = Tail(bus_to_sender)
                /\ fc_seen' = IF msg.arbitration_id = snd_rx_id /\ Len(msg.data) > 0
                                 /\ msg.data[1] \div 16 = 3
                              THEN Append(fc_seen, msg.data) ELSE fc_seen
                /\ snd' = CASE outcome = "cts" ->
                                 [snd EXCEPT !.pc = "send_cf", !.offset = 0, !.seq_num = 1]
                            [] outcome = "abort" -> SndReturn(snd, FALSE)
                            [] OTHER -> snd
                /\ UNCHANGED now
    /\ UNCHANGED <<config, rcv, bus_to_peer, delivered, tx_log, fc_log, udsVars, dtcVars, vehVars, obdVars, codecVars, ecuVars, lifeVars, inVars>>

\* One iteration of the loop that sends the Consecutive frames.
SendConsecutive ==
    /\ snd.pc = "send_cf"
    /\ LET remaining == SliceFrom(snd.payload, FIRST_DATA_LEN)
           chunk == Slice(remaining, snd.offset, snd.offset + CONSEC_DATA_LEN)
           cf_data == create_consecutive_frame(snd.seq_num, chunk, config.padding)
           offset == snd.offset + CONSEC_DATA_LEN
       IN  /\ bus_to_peer' = Append(bus_to_peer, Message(snd_tx_id, cf_data))
           /\ tx_log' = Append(tx_log, cf_data)
           /\ now' = IF config.stmin > 0 THEN now + config.stmin ELSE now
           /\ snd' = IF offset < Len(remaining)
                     THEN [snd EXCEPT !.seq_num = SenderNextSeq(snd.seq_num), !.offset = offset]
                     ELSE SndReturn([snd EXCEPT !.seq_num = SenderNextSeq(snd.seq_num),
                                                !.offset = offset], TRUE)
    /\ UNCHANGED <<config, rcv, bus_to_sender, delivered, fc_log, fc_seen, udsVars, dtcVars, vehVars, obdVars, codecVars, ecuVars, lifeVars, inVars>>

----------------------------------------------------------------------------
(* ISOTPReceiver                                                           *)

RcvIdle ==
    [receiving |-> FALSE, expected_length |-> 0, received_data |-> <<>>,
     next_seq_num |-> 1, last_frame_time |-> 0]

\* _reset_reception
reset_reception(r) == RcvIdle

\* What receive_frame gives back: the new receiver state, the payload returned
\* (out, a sequence of zero or one payload) and the frames put on the bus.
RcvResult(r, out, sent) == [rcv |-> r, out |-> out, sent |-> sent]

\* A faulty variant: the expected sequence number never moves on.
ReceiverNextSeq_stuck(n) == n

\* self.next_seq_num = (self.next_seq_num + 1) % 16
ReceiverNextSeq(n) == (n + 1) % SEQ_MODULUS

handle_single_frame(r, data) == RcvResult(reset_reception(r), <<data>>, <<>>)

\* _send_flow_control(flow_status)
send_flow_control(cfg, flow_status) ==
    Message(rcv_tx_id,
            create_flow_control(flow_status, cfg.block_size, cfg.stmin, cfg.padding))

handle_first_frame(r, data, raw_frame, cfg, t) ==
    IF Len(raw_frame) < 2 THEN RcvResult(reset_reception(r), <<>>, <<>>)
    ELSE LET pci_high == raw_frame[1]
             pci_low == raw_frame[2]
             started == [receiving |-> TRUE,
                         expected_length |-> ((pci_high % 16) * 256) + pci_low,
                         received_data |-> Slice(data, 0, FIRST_DATA_LEN),
                         next_seq_num |-> 1,
                         last_frame_time |-> t]
         IN  RcvResult(started, <<>>,
                       <<send_flow_control(cfg, FlowStatus_CONTINUE_TO_SEND)>>)

handle_consecutive_frame(r, data, raw_frame, cfg, t) ==
    IF ~r.receiving THEN RcvResult(r, <<>>, <<>>)
    ELSE IF t - r.last_frame_time > cfg.timeout_ms
    THEN RcvResult(reset_reception(r), <<>>, <<>>)
    ELSE LET seq_num == raw_frame[1] % 16
         IN  IF seq_num # r.next_seq_num
             THEN RcvResult(reset_reception(r), <<>>, <<>>)
             ELSE LET remaining == r.expected_length - Len(r.received_data)
                      chunk_size == Min(CONSEC_DATA_LEN, remaining)
                      \* data[:chunk_size]: a negative chunk_size cuts from the end
                      chunk == IF chunk_size >= 0 THEN Slice(data, 0, chunk_size)
                               ELSE Slice(data, 0, Max(0, Len(data) + chunk_size))
                      received_data == r.received_data \o chunk
                      updated == [r EXCEPT !.received_data = received_data,
                                           !.next_seq_num = ReceiverNextSeq(r.next_seq_num),
                                           !.last_frame_time = t]
                  IN  IF Len(received_data) >= r.expected_length
                      THEN RcvResult(reset_reception(updated),
                                     <<Slice(received_data, 0, r.expected_length)>>, <<>>)
                      ELSE RcvResult(updated, <<>>, <<>>)

receive_frame(r, msg, cfg, t) ==
    IF msg.arbitration_id # rcv_rx_id THEN RcvResult(r, <<>>, <<>>)
    ELSE LET p == ISOTPFrame_parse(msg.data)
         IN  IF ~p.ok THEN RcvResult(reset_reception(r), <<>>, <<>>)
             ELSE CASE p.frame_type = "SINGLE_FRAME" -> handle_single_frame(r, p.data)
                    [] p.frame_type = "FIRST_FRAME" ->
                         handle_first_frame(r, p.data, msg.data, cfg, t)
                    [] p.frame_type = "CONSECUTIVE_FRAME" ->
                         handle_consecutive_frame(r, p.data, msg.data, cfg, t)
                    [] OTHER -> RcvResult(r, <<>>, <<>>)

\* The receiving endpoint reads the next frame from the bus and hands it to
\* receive_frame.
PeerReceive ==
    /\ bus_to_peer # <<>>
    /\ LET res == receive_frame(rcv, Head(bus_to_peer), config, now)
       IN  /\ rcv' = res.rcv
           /\ delivered' = delivered \o res.out
           /\ bus_to_sender' = bus_to_sender \o res.sent
           /\ fc_log' = fc_log \o [i \in 1..Len(res.sent) |-> res.sent[i].data]
    /\ bus_to_peer' = Tail(bus_to_peer)
    /\ UNCHANGED <<now, config, snd, tx_log, fc_seen, udsVars, dtcVars, vehVars, obdVars, codecVars, ecuVars, lifeVars, inVars>>

----------------------------------------------------------------------------
(* The ISO-TP specification: one send() of one payload to a paired         *)
(* receiver, under each configuration.                                     *)

InitTp ==
    /\ now = 0
    /\ config \in Configs
    /\ snd \in { SndIdle(p) : p \in Payloads }
    /\ rcv = RcvIdle
    /\ bus_to_peer = <<>>
    /\ bus_to_sender = <<>>
    /\ delivered = <<>>
    /\ tx_log = <<>>
    /\ fc_log = <<>>
    /\ fc_seen = <<>>
    /\ UdsAtRest
    /\ DtcAtRest
    /\ VehAtRest
    /\ ObdAtRest
    /\ CodecAtRest
    /\ EcuAtRest
    /\ LifeAtRest
    /\ InboundAtRest

NextTp ==
    \/ SendStart
    \/ WaitForFlowControl
    \/ SendConsecutive
    \/ PeerReceive

SpecTp == InitTp /\ [][NextTp]_vars

----------------------------------------------------------------------------
(* The UDS specification: requests handed to process() and time passing    *)
(* between them.                                                           *)

\* random.randint(0x10000000, 0xFFFFFFFF): the lowest and the highest seed
SEED_MIN == Word32(4096, 0)

SEED_MAX == Word32(65535, 65535)

Seeds == {SEED_MIN, SEED_MAX}

\* The keys tried: the right key of each seed, and each seed itself.
Keys == { ExpectedKey(s) : s \in Seeds } \cup Seeds

SendKeyRequests == { <<39, sub>> \o ToBytes4(k) : sub \in {0, 2, 4, 6}, k \in Keys }

UdsRequests ==
    { <<16, 1>>, <<16, 2>>, <<16, 3>>, <<16, 5>>,
      <<39, 1>>, <<39, 3>>, <<39, 2>>,
      <<62, 0>>, <<62, 128>>,
      <<34, 1, 0>>, <<46, 1, 0, 170>>, <<47, 1, 0, 0>>,
      <<46, 1, 0>>, <<46, 2, 0, 170>>,
      <<52>>, <<54, 1>>, <<55>>, <<153>> }
    \cup SendKeyRequests

\* The requests of the specification in which time passes: session
\* changes, one seed request and the right and a wrong key for it, tester
\* present, and one request of each service that depends on the session or
\* on the security level.
TimedRequests ==
    { <<16, 2>>, <<16, 3>>,
      <<39, 1>>, <<39, 2>> \o ToBytes4(ExpectedKey(SEED_MIN)), <<39, 2>> \o ToBytes4(SEED_MIN),
      <<62, 0>>,
      <<34, 1, 0>>, <<46, 1, 0, 170>>, <<47, 1, 0, 0>>, <<52>> }

\* The steps by which time passes between requests, and the time bound.
UdsDts == {2500, 5001}

MaxNowUds == 7500

\* The seeds random.randint may return to a request: only a seed request
\* (service 0x27, odd sub-function) draws one.
SeedsDrawn(request) ==
    IF Len(request) >= 2 /\ request[1] = 39 /\ request[2] % 2 = 1 THEN Seeds ELSE {SEED_MIN}

\* process(request) at the current time, and the record of it.
UdsStep(request, fresh_seed) ==
    LET r == uds_process(uds, request, now, fresh_seed)
        seen == SessionAfterTimeoutCheck(uds, request[1], now)
    IN  /\ uds' = r.uds
        /\ uds_last' =
               [request |-> request, time |-> now, idle |-> now - uds_last.time,
                pre_session |-> uds.current_session,
                disp_session |-> seen.current_session,
                disp_security |-> seen.security_level,
                pre_seed |-> uds.current_seed,
                pre_dids |-> uds.dids,
                kind |-> r.kind, response |-> r.response,
                wrong_run |->
                    IF r.response = negative_response(39, 53) THEN uds_last.wrong_run + 1
                    ELSE IF request[1] = 39 /\ Len(request) >= 6
                            /\ r.response = <<103, request[2]>> THEN 0
                    ELSE uds_last.wrong_run,
                after_late_tp |->
                    /\ uds_last.request # <<>>
                    /\ uds_last.request[1] = 62
                    /\ uds_last.pre_session # DiagnosticSession_DEFAULT
                    /\ uds_last.idle > SESSION_TIMEOUT_MS,
                seed_sub |->
                    IF r.uds.current_seed = <<>> THEN 0
                    ELSE IF Len(request) >= 2 /\ request[1] = 39 /\ request[2] % 2 = 1
                            /\ r.response = <<103, request[2]>> \o ToBytes4(fresh_seed)
                    THEN request[2]
                    ELSE uds_last.seed_sub,
                pre_seed_sub |-> uds_last.seed_sub]
        /\ dtc' = IF r.clear THEN clear_dtcs(dtc, FALSE) ELSE dtc
        /\ dtc_last' = IF r.clear
                       THEN DtcOp("clear", "uds14", <<>>, FALSE, TRUE, dtc)
                       ELSE dtc_last
        /\ UNCHANGED <<tpVars, vehVars, obdVars, codecVars, ecuVars, lifeVars, inVars>>

UdsRequest ==
    \E request \in UdsRequests : \E fresh_seed \in SeedsDrawn(request) :
        /\ UdsStep(request, fresh_seed)
        /\ UNCHANGED now

UdsTimedRequest ==
    \E request \in TimedRequests : \E fresh_seed \in SeedsDrawn(request) :
        /\ UdsStep(request, fresh_seed)
        /\ UNCHANGED now

UdsAdvance ==
    \E dt \in UdsDts :
        /\ now + dt <= MaxNowUds
        /\ now' = now + dt
        /\ UNCHANGED <<tpVars, udsVars, dtcVars, vehVars, obdVars, codecVars, ecuVars, lifeVars, inVars>>

TpAtRest ==
    /\ config = DefaultConfig
    /\ snd = SndIdle(<<>>)
    /\ rcv = RcvIdle
    /\ bus_to_peer = <<>>
    /\ bus_to_sender = <<>>
    /\ delivered = <<>>
    /\ tx_log = <<>>
    /\ fc_log = <<>>
    /\ fc_seen = <<>>

InitUds ==
    /\ now = 0
    /\ UdsAtRest
    /\ TpAtRest
    /\ DtcAtRest
    /\ VehAtRest
    /\ ObdAtRest
    /\ CodecAtRest
    /\ EcuAtRest
    /\ LifeAtRest
    /\ InboundAtRest

\* Requests of every kind, back to back.
NextUds == UdsRequest

SpecUds == InitUds /\ [][NextUds]_vars

\* Fewer kinds of request, with time passing between them.
NextUdsTime ==
    \/ UdsTimedRequest
    \/ UdsAdvance

SpecUdsTime == InitUds /\ [][NextUdsTime]_vars

----------------------------------------------------------------------------
(* The fault registry on its own: SpecDtc                                  *)

\* One code of each kind of the catalog, and one that is not in it
DtcCodes == {P0420, P0100, P0700, P9999}

MaxDetections == 3

MaxDriveCycles == 1

\* One millisecond more than the healing time
DtcDts == {HEALING_DRIVE_CYCLES * HEALING_CYCLE_MS + 1}

MaxNowDtc == 24000001

InjectDtc ==
    \E code \in DtcCodes :
        LET i == IndexOf(dtc.dtcs, code)
            r == inject_dtc(dtc, code, now)
        IN  /\ i # 0 => dtc.dtcs[i].detection_count < MaxDetections
            /\ dtc' = r.dtc
            /\ dtc_last' = DtcOp("inject", "registry", code, FALSE, r.ok, dtc)
            /\ UNCHANGED <<now, tpVars, udsVars, vehVars, obdVars, codecVars, ecuVars, lifeVars, inVars>>

ClearDtcs ==
    \E clear_permanent \in BOOLEAN :
        /\ dtc' = clear_dtcs(dtc, clear_permanent)
        /\ dtc_last' = DtcOp("clear", "registry", <<>>, clear_permanent, TRUE, dtc)
        /\ UNCHANGED <<now, tpVars, udsVars, vehVars, obdVars, codecVars, ecuVars, lifeVars, inVars>>

DriveCycleComplete ==
    /\ dtc.drive_cycle_count < MaxDriveCycles
    /\ dtc' = drive_cycle_complete(dtc, now)
    /\ dtc_last' = DtcOp("drive_cycle", "registry", <<>>, FALSE, TRUE, dtc)
    /\ UNCHANGED <<now, tpVars, udsVars, vehVars, obdVars, codecVars, ecuVars, lifeVars, inVars>>

DtcAdvance ==
    \E dt \in DtcDts :
        /\ now + dt <= MaxNowDtc
        /\ now' = now + dt
        /\ UNCHANGED <<tpVars, udsVars, dtcVars, vehVars, obdVars, codecVars, ecuVars, lifeVars, inVars>>

InitDtc ==
    /\ now = 0
    /\ TpAtRest
    /\ UdsAtRest
    /\ DtcAtRest
    /\ VehAtRest
    /\ ObdAtRest
    /\ CodecAtRest
    /\ EcuAtRest
    /\ LifeAtRest
    /\ InboundAtRest

NextDtc == InjectDtc \/ ClearDtcs \/ DriveCycleComplete \/ DtcAdvance

SpecDtc == InitDtc /\ [][NextDtc]_vars

----------------------------------------------------------------------------
(* The sensor model and the clear entry points: SpecVeh                    *)

VehDts == {500, 1000}

MaxNowVeh == 2000

\* Draws of random.gauss(0, 10) for the rpm and of random.gauss(0, 0.5) for
\* the coolant temperature (in 0.1 degC)
RpmNoise == {-10, 0, 10}

TempNoise == {-5, 0, 5}

Throttles == {0, 100}

Speeds == {60}

Rpms == {3000}

\* P0420 and P0100 injected twice each at time 0: one PERMANENT code, one
\* CONFIRMED code, the MIL on.
DtcSeeded ==
    LET twice(m, code) == inject_dtc(inject_dtc(m, code, 0).dtc, code, 0).dtc
    IN  twice(twice(DtcInit, P0420), P0100)

\* The draws update(dt) makes in the state v: the rpm draw when the engine
\* runs, the temperature draw when it runs at operating temperature.
RpmDrawn(v) == IF v.engine_state = EngineState_RUNNING THEN RpmNoise ELSE {0}

TempDrawn(v) ==
    IF v.engine_state = EngineState_RUNNING /\ v.coolant_temp >= COOLANT_TEMP_NORMAL
    THEN TempNoise ELSE {0}

\* mock_ecu_v2._simulation_loop: update(dt) with the time that has passed
VehicleTick ==
    \E dt \in VehDts : \E rpm_noise \in RpmDrawn(veh) : \E temp_noise \in TempDrawn(veh) :
        /\ now + dt <= MaxNowVeh
        /\ now' = now + dt
        /\ veh' = vehicle_update(veh, dt, rpm_noise, temp_noise)
        /\ dtc_last' = NoDtcOp
        /\ UNCHANGED <<tpVars, udsVars, dtc, veh_last, obdVars, codecVars, ecuVars, lifeVars, inVars>>

VehInput(v) ==
    /\ veh' = v
    /\ v # veh
    /\ dtc_last' = NoDtcOp
    /\ UNCHANGED <<now, tpVars, udsVars, dtc, veh_last, obdVars, codecVars, ecuVars, lifeVars, inVars>>

StartEngine == VehInput(start_engine(veh))

StopEngine == VehInput(stop_engine(veh))

SetThrottle == \E position \in Throttles : VehInput(set_throttle(veh, position))

SetSpeed == \E speed \in Speeds : VehInput(set_speed(veh, speed))

SetRpm == \E rpm \in Rpms : VehInput(set_rpm(veh, rpm))

ClearRecord(entry) == DtcOp("clear", entry, <<>>, FALSE, TRUE, dtc)

\* An OBD request of mode 04, with or without a second byte
ObdClear ==
    \E request \in {<<4>>, <<4, 0>>} :
        LET r == obd_process(dtc, veh, request)
        IN  /\ dtc' = r.dtc
            /\ veh' = r.veh
            /\ dtc_last' = IF r.cleared THEN ClearRecord("mode04") ELSE NoDtcOp
            /\ obd_last' = ObdAnswer(request, r)
            /\ UNCHANGED <<now, tpVars, udsVars, veh_last, codecVars, ecuVars, lifeVars, inVars>>

\* UDS service 0x14 for all groups (FF FF FF) and for one other group
UdsClear ==
    \E request \in {<<20, 255, 255, 255>>, <<20, 0, 0, 1>>} :
        /\ UdsStep(request, SEED_MIN)
        /\ UNCHANGED now

\* POST /api/dtc/clear for one ECU (dtc_manager.clear_dtcs()) and for all
\* (MultiECUCoordinator.clear_all_dtcs)
ControlClear ==
    \E entry \in {"control", "coordinator"} :
        /\ dtc' = clear_dtcs(dtc, FALSE)
        /\ dtc_last' = ClearRecord(entry)
        /\ UNCHANGED <<now, tpVars, udsVars, vehVars, obdVars, codecVars, ecuVars, lifeVars, inVars>>

InitVeh ==
    /\ now = 0
    /\ TpAtRest
    /\ UdsAtRest
    /\ dtc \in {DtcInit, DtcSeeded}
    /\ dtc_last = NoDtcOp
    /\ VehAtRest
    /\ ObdAtRest
    /\ CodecAtRest
    /\ EcuAtRest
    /\ LifeAtRest
    /\ InboundAtRest

\* Driving at a set speed, and the three ways to clear
NextVeh ==
    \/ VehicleTick
    \/ StartEngine
    \/ StopEngine
    \/ SetSpeed
    \/ ObdClear
    \/ UdsClear
    \/ ControlClear

SpecVeh == InitVeh /\ [][NextVeh]_vars

InitDrive ==
    /\ now = 0
    /\ TpAtRest
    /\ UdsAtRest
    /\ DtcAtRest
    /\ VehAtRest
    /\ ObdAtRest
    /\ CodecAtRest
    /\ EcuAtRest
    /\ LifeAtRest
    /\ InboundAtRest

\* Every input of the sensor model, without the clear entry points
NextDrive ==
    \/ VehicleTick
    \/ StartEngine
    \/ StopEngine
    \/ SetThrottle
    \/ SetSpeed
    \/ SetRpm

SpecDrive == InitDrive /\ [][NextDrive]_vars

----------------------------------------------------------------------------
(* The sensor model under every call: SpecSens. The control operations     *)
(* come with arguments inside and outside the legal ranges, update(dt)     *)
(* with the time that has passed; each call is recorded in veh_last. The   *)
(* fault registry holds no code, or a CONFIRMED and a PERMANENT one.       *)

\* Arguments of set_throttle (%), set_speed (km/h) and set_rpm (1/min):
\* below the range and above it, and a speed inside it
SensThrottles == {-10, 150}

SensSpeeds == {-5, 60, 300}

SensRpms == {-100, 7000}

SensDts == {500, 1000}

MaxNowSens == 1500

\* update(dt), called by _simulation_loop or directly
SensUpdate ==
    \E dt \in SensDts : \E rpm_noise \in RpmDrawn(veh) : \E temp_noise \in TempDrawn(veh) :
        /\ now + dt <= MaxNowSens
        /\ now' = now + dt
        /\ veh' = vehicle_update(veh, dt, rpm_noise, temp_noise)
        /\ veh_last' = VehOp("update", dt, veh)
        /\ UNCHANGED <<tpVars, udsVars, dtcVars, obdVars, codecVars, ecuVars, lifeVars, inVars>>

\* A control operation op(arg) whose result is v
SensCall(op, arg, v) ==
    /\ veh' = v
    /\ veh_last' = VehOp(op, arg, veh)
    /\ UNCHANGED <<now, tpVars, udsVars, dtcVars, obdVars, codecVars, ecuVars, lifeVars, inVars>>

SensStartEngine == SensCall("start_engine", 0, start_engine(veh))

SensStopEngine == SensCall("stop_engine", 0, stop_engine(veh))

SensSetThrottle ==
    \E position \in SensThrottles : SensCall("set_throttle", position, set_throttle(veh, position))

SensSetSpeed == \E speed \in SensSpeeds : SensCall("set_speed", speed, set_speed(veh, speed))

SensSetRpm == \E rpm \in SensRpms : SensCall("set_rpm", rpm, set_rpm(veh, rpm))

InitSens ==
    /\ now = 0
    /\ TpAtRest
    /\ UdsAtRest
    /\ dtc \in {DtcInit, DtcSeeded}
    /\ dtc_last = NoDtcOp
    /\ VehAtRest
    /\ ObdAtRest
    /\ CodecAtRest
    /\ EcuAtRest
    /\ LifeAtRest
    /\ InboundAtRest

NextSens ==
    \/ SensUpdate
    \/ SensStartEngine
    \/ SensStopEngine
    \/ SensSetThrottle
    \/ SensSetSpeed
    \/ SensSetRpm

SpecSens == InitSens /\ [][NextSens]_vars

----------------------------------------------------------------------------
(* Cranking under the control operations: SpecCrank. The engine is started *)
(* and never stopped; _simulation_loop keeps calling update(dt) with       *)
(* dt >= 0.1 s while set_rpm, set_speed and set_throttle are called at any *)
(* time. The clock is not followed; the running engine is followed for     *)
(* MaxCrankRuntime ms.                                                     *)

CrankDts == {100, 1000}

CrankRpms == {0, 7000}

CrankSpeeds == {0, 60}

CrankThrottles == {0, 100}

MaxCrankRuntime == 100

\* _simulation_loop: update(dt) once dt >= 0.1
CrankUpdate ==
    \E dt \in CrankDts : \E rpm_noise \in RpmDrawn(veh) : \E temp_noise \in TempDrawn(veh) :
        /\ veh.engine_state = EngineState_RUNNING => veh.engine_runtime + dt <= MaxCrankRuntime
        /\ veh' = vehicle_update(veh, dt, rpm_noise, temp_noise)
        /\ veh_last' = VehOp("update", dt, veh)
        /\ UNCHANGED <<now, tpVars, udsVars, dtcVars, obdVars, codecVars, ecuVars, lifeVars, inVars>>

\* MockECU.start: self.vehicle.start_engine()
CrankStart == SensCall("start_engine", 0, start_engine(veh))

CrankSetRpm == \E rpm \in CrankRpms : SensCall("set_rpm", rpm, set_rpm(veh, rpm))

CrankSetSpeed == \E speed \in CrankSpeeds : SensCall("set_speed", speed, set_speed(veh, speed))

CrankSetThrottle ==
    \E position \in CrankThrottles : SensCall("set_throttle", position, set_throttle(veh, position))

InitCrank ==
    /\ now = 0
    /\ TpAtRest
    /\ UdsAtRest
    /\ DtcAtRest
    /\ VehAtRest
    /\ ObdAtRest
    /\ CodecAtRest
    /\ EcuAtRest
    /\ LifeAtRest
    /\ InboundAtRest

NextCrank ==
    \/ CrankUpdate
    \/ CrankStart
    \/ CrankSetRpm
    \/ CrankSetSpeed
    \/ CrankSetThrottle

\* The simulation thread is never starved: update is called again and again.
SpecCrank == InitCrank /\ [][NextCrank]_vars /\ WF_vars(CrankUpdate)

----------------------------------------------------------------------------
(* The readiness monitors over a drive: SpecReady. update(dt) is called    *)
(* every two seconds for long enough to complete a monitor, the engine is  *)
(* stopped and started, the drive cycle is reset through the control API,  *)
(* and OBD requests are handed to process.                                 *)

ReadyDts == {2000}

MaxNowReady == 14000

\* OBD requests: mode 04, with and without a second byte
ReadyRequests == {<<4, 0>>, <<4>>}

\* The draws of random.gauss followed here: the mean
ReadyNoise == {0}

ReadyUpdate ==
    \E dt \in ReadyDts : \E rpm_noise \in ReadyNoise : \E temp_noise \in ReadyNoise :
        /\ now + dt <= MaxNowReady
        /\ now' = now + dt
        /\ veh' = vehicle_update(veh, dt, rpm_noise, temp_noise)
        /\ veh_last' = VehOp("update", dt, veh)
        /\ UNCHANGED <<tpVars, udsVars, dtcVars, obdVars, codecVars, ecuVars, lifeVars, inVars>>

ReadyStart == SensCall("start_engine", 0, start_engine(veh))

ReadyStop == SensCall("stop_engine", 0, stop_engine(veh))

\* POST /api/readiness/reset
ReadyReset == SensCall("reset_drive_cycle", 0, reset_drive_cycle(veh))

\* MockECU._process_service handing an OBD payload to process; mode 04
\* calls vehicle.reset_drive_cycle()
ReadyObd ==
    \E request \in ReadyRequests :
        LET r == obd_process(dtc, veh, request)
        IN  /\ dtc' = r.dtc
            /\ veh' = r.veh
            /\ veh_last' = IF r.cleared THEN VehOp("reset_drive_cycle", 0, veh) ELSE veh_last
            /\ dtc_last' = IF r.cleared THEN ClearRecord("mode04") ELSE NoDtcOp
            /\ obd_last' = ObdAnswer(request, r)
            /\ UNCHANGED <<now, tpVars, udsVars, codecVars, ecuVars, lifeVars, inVars>>

InitReady ==
    /\ now = 0
    /\ TpAtRest
    /\ UdsAtRest
    /\ DtcAtRest
    /\ VehAtRest
    /\ ObdAtRest
    /\ CodecAtRest
    /\ EcuAtRest
    /\ LifeAtRest
    /\ InboundAtRest

NextReady ==
    \/ ReadyUpdate
    \/ ReadyStart
    \/ ReadyStop
    \/ ReadyReset
    \/ ReadyObd

SpecReady == InitReady /\ [][NextReady]_vars

----------------------------------------------------------------------------
(* The sensor model under two threads: SpecStop. The simulation thread     *)
(* calls update(dt) (mock_ecu_v2._simulation_loop) while another thread    *)
(* calls start_engine() and stop_engine() (MockECU.start, MockECU.stop,    *)
(* the control API). VehicleSimulator holds no lock, so the statements of  *)
(* the three methods interleave; each step is one statement.               *)

StopDts == {500, 1000}

MaxStopUpdates == 3

\* The positions of update() from the cranking test that chose the branch to
\* the assignment of engine_state in _update_cranking_state.
CrankInFlight == {"crank_read", "crank_write", "crank_test", "crank_state"}

StopRest == <<now, tpVars, udsVars, dtcVars, veh_last, obdVars, codecVars, ecuVars, life, inVars>>

\* update(dt): the call, the three tests of engine_state in turn, and the
\* bodies of the running and the off branch.
UpdateDispatch ==
    /\ thr.upd_pc \in {"idle", "if_running", "elif_cranking", "elif_off", "running", "off"}
    /\ CASE thr.upd_pc = "idle" ->
              /\ thr.updates < MaxStopUpdates
              /\ \E dt \in StopDts :
                    thr' = [thr EXCEPT !.upd_pc = "if_running", !.upd_dt = dt,
                                       !.updates = @ + 1]
              /\ UNCHANGED veh
         [] thr.upd_pc = "if_running" ->
              /\ thr' = [thr EXCEPT !.upd_pc =
                            IF veh.engine_state = EngineState_RUNNING
                            THEN "running" ELSE "elif_cranking"]
              /\ UNCHANGED veh
         [] thr.upd_pc = "elif_cranking" ->
              /\ thr' = [thr EXCEPT !.upd_pc =
                            IF veh.engine_state = EngineState_CRANKING
                            THEN "crank_read" ELSE "elif_off"]
              /\ UNCHANGED veh
         [] thr.upd_pc = "elif_off" ->
              /\ thr' = [thr EXCEPT !.upd_pc =
                            IF veh.engine_state = EngineState_OFF
                            THEN "off" ELSE "idle"]
              /\ UNCHANGED veh
         [] thr.upd_pc = "running" ->
              /\ veh' = update_readiness_monitors(
                            update_running_state(veh, thr.upd_dt, 0, 0))
              /\ thr' = [thr EXCEPT !.upd_pc = "idle"]
         [] thr.upd_pc = "off" ->
              /\ veh' = update_off_state(veh, thr.upd_dt)
              /\ thr' = [thr EXCEPT !.upd_pc = "idle"]
    /\ UNCHANGED StopRest

\* _update_cranking_state(dt), statement by statement: the read and the write
\* of sensors.rpm, the test, the two assignments, the cold start detection.
UpdateCrankingStep ==
    /\ thr.upd_pc \in CrankInFlight \cup {"crank_idle_rpm", "crank_cold"}
    /\ CASE thr.upd_pc = "crank_read" ->
              /\ thr' = [thr EXCEPT !.upd_pc = "crank_write", !.upd_rpm = veh.rpm]
              /\ UNCHANGED veh
         [] thr.upd_pc = "crank_write" ->
              /\ veh' = [veh EXCEPT !.rpm =
                            Min(CRANK_RPM_MAX, thr.upd_rpm + (200 * thr.upd_dt) \div 1000)]
              /\ thr' = [thr EXCEPT !.upd_pc = "crank_test"]
         [] thr.upd_pc = "crank_test" ->
              /\ thr' = [thr EXCEPT !.upd_pc =
                            IF veh.rpm >= CRANK_RPM_DONE THEN "crank_state" ELSE "idle"]
              /\ UNCHANGED veh
         [] thr.upd_pc = "crank_state" ->
              /\ veh' = [veh EXCEPT !.engine_state = EngineState_RUNNING]
              /\ thr' = [thr EXCEPT !.upd_pc = "crank_idle_rpm"]
         [] thr.upd_pc = "crank_idle_rpm" ->
              /\ veh' = [veh EXCEPT !.rpm = RPM_IDLE]
              /\ thr' = [thr EXCEPT !.upd_pc = "crank_cold"]
         [] thr.upd_pc = "crank_cold" ->
              /\ veh' = IF veh.coolant_temp < COLD_START_TEMP
                        THEN [veh EXCEPT !.drive_cycle.cold_start_count = @ + 1,
                                         !.warmups_since_clear = @ + 1]
                        ELSE veh
              /\ thr' = [thr EXCEPT !.upd_pc = "idle"]
    /\ UNCHANGED StopRest

\* stop_engine(): its two assignments; it has returned after the second.
StopEngineStep ==
    /\ thr.ctl_pc \in {"idle", "stop_rpm"}
    /\ CASE thr.ctl_pc = "idle" ->
              /\ veh' = [veh EXCEPT !.engine_state = EngineState_OFF]
              /\ thr' = [thr EXCEPT !.ctl_pc = "stop_rpm",
                                    !.raced = @ \/ thr.upd_pc \in CrankInFlight]
         [] thr.ctl_pc = "stop_rpm" ->
              /\ veh' = [veh EXCEPT !.rpm = 0]
              /\ thr' = [thr EXCEPT !.ctl_pc = "idle", !.stop_returned = TRUE]
    /\ UNCHANGED StopRest

\* start_engine(): the test of engine_state and the two assignments.
StartEngineStep ==
    /\ thr.ctl_pc \in {"idle", "start_state", "start_rpm"}
    /\ CASE thr.ctl_pc = "idle" ->
              /\ thr' = [thr EXCEPT !.ctl_pc =
                            IF veh.engine_state = EngineState_OFF
                            THEN "start_state" ELSE "idle",
                                    !.stop_returned = FALSE, !.raced = FALSE]
              /\ UNCHANGED veh
         [] thr.ctl_pc = "start_state" ->
              /\ veh' = [veh EXCEPT !.engine_state = EngineState_CRANKING]
              /\ thr' = [thr EXCEPT !.ctl_pc = "start_rpm"]
         [] thr.ctl_pc = "start_rpm" ->
              /\ veh' = [veh EXCEPT !.rpm = CRANK_RPM_START]
              /\ thr' = [thr EXCEPT !.ctl_pc = "idle"]
    /\ UNCHANGED StopRest

InitStop ==
    /\ now = 0
    /\ TpAtRest
    /\ UdsAtRest
    /\ DtcAtRest
    /\ VehAtRest
    /\ ObdAtRest
    /\ CodecAtRest
    /\ EcuAtRest
    /\ LifeAtRest
    /\ InboundAtRest

NextStop ==
    \/ UpdateDispatch
    \/ UpdateCrankingStep
    \/ StopEngineStep
    \/ StartEngineStep

SpecStop == InitStop /\ [][NextStop]_vars

----------------------------------------------------------------------------
(* The fault registry with a long history: SpecHist. Nine codes have been  *)
(* injected one after the other and cleared; a few codes are then injected *)
(* and cleared.                                                            *)

P0300 == <<"P", "0", "3", "0", "0">>

P0301 == <<"P", "0", "3", "0", "1">>

\* The codes injected at times 1, 2, ..., 9 before the first clear
HistSeedCodes ==
    <<P0300, P0301, <<"P", "0", "3", "0", "2">>, <<"P", "0", "3", "0", "3">>,
      <<"P", "0", "3", "0", "4">>, <<"P", "0", "1", "7", "1">>, <<"P", "0", "1", "7", "2">>,
      <<"P", "0", "1", "7", "4">>, <<"P", "0", "1", "7", "5">>>>

RECURSIVE InjectEach(_, _, _)
\* inject_dtc of each code in turn, the first at time t, one time unit apart
InjectEach(m, codes, t) ==
    IF codes = <<>> THEN m
    ELSE InjectEach(inject_dtc(m, Head(codes), t).dtc, Tail(codes), t + 1)

\* The registry after these injects and one clear_dtcs(): nine HISTORY codes
HistSeeded == clear_dtcs(InjectEach(DtcInit, HistSeedCodes, 1), FALSE)

\* The codes injected afterwards: the oldest of the history, and three that
\* the registry does not hold yet
HistCodes == {P0300, P0420, P0100, P0700}

MaxHistDetections == 2

MaxNowHist == 11

HistInject ==
    \E code \in HistCodes :
        LET i == IndexOf(dtc.dtcs, code)
            r == inject_dtc(dtc, code, now)
        IN  /\ i # 0 => dtc.dtcs[i].detection_count < MaxHistDetections
            /\ dtc' = r.dtc
            /\ dtc_last' = DtcOp("inject", "registry", code, FALSE, r.ok, dtc)
            /\ UNCHANGED <<now, tpVars, udsVars, vehVars, obdVars, codecVars, ecuVars, lifeVars, inVars>>

HistClear ==
    \E clear_permanent \in BOOLEAN :
        /\ dtc' = clear_dtcs(dtc, clear_permanent)
        /\ dtc_last' = DtcOp("clear", "registry", <<>>, clear_permanent, TRUE, dtc)
        /\ UNCHANGED <<now, tpVars, udsVars, vehVars, obdVars, codecVars, ecuVars, lifeVars, inVars>>

HistAdvance ==
    /\ now < MaxNowHist
    /\ now' = now + 1
    /\ UNCHANGED <<tpVars, udsVars, dtcVars, vehVars, obdVars, codecVars, ecuVars, lifeVars, inVars>>

InitHist ==
    /\ now = Len(HistSeedCodes) + 1
    /\ TpAtRest
    /\ UdsAtRest
    /\ dtc = HistSeeded
    /\ dtc_last = NoDtcOp
    /\ VehAtRest
    /\ ObdAtRest
    /\ CodecAtRest
    /\ EcuAtRest
    /\ LifeAtRest
    /\ InboundAtRest

NextHist == HistInject \/ HistClear \/ HistAdvance

SpecHist == InitHist /\ [][NextHist]_vars

----------------------------------------------------------------------------
(* The OBD service handler over the fault registry: SpecObd                *)

\* The read requests of one byte and of two, a clear, and a mode that
\* process does not know
ObdRequests == {<<3>>, <<7>>, <<10>>, <<3, 0>>, <<7, 0>>, <<10, 0>>, <<4, 0>>, <<5, 0>>}

\* inject_dtc through the control surface, at most MaxDetections times a code
ObdInject ==
    \E code \in DtcCodes :
        LET i == IndexOf(dtc.dtcs, code)
            r == inject_dtc(dtc, code, now)
        IN  /\ i # 0 => dtc.dtcs[i].detection_count < MaxDetections
            /\ dtc' = r.dtc
            /\ dtc_last' = DtcOp("inject", "control", code, FALSE, r.ok, dtc)
            /\ obd_last' = NoObdRequest
            /\ UNCHANGED <<now, tpVars, udsVars, vehVars, codecVars, ecuVars, lifeVars, inVars>>

\* MockECU._process_service handing a payload of mode 01..0A to process
ObdRequest ==
    \E request \in ObdRequests :
        LET r == obd_process(dtc, veh, request)
        IN  /\ dtc' = r.dtc
            /\ veh' = r.veh
            /\ dtc_last' = IF r.cleared THEN ClearRecord("mode04") ELSE NoDtcOp
            /\ obd_last' = ObdAnswer(request, r)
            /\ UNCHANGED <<now, tpVars, udsVars, veh_last, codecVars, ecuVars, lifeVars, inVars>>

InitObd ==
    /\ now = 0
    /\ TpAtRest
    /\ UdsAtRest
    /\ DtcAtRest
    /\ VehAtRest
    /\ ObdAtRest
    /\ CodecAtRest
    /\ EcuAtRest
    /\ LifeAtRest
    /\ InboundAtRest

NextObd == ObdInject \/ ObdRequest

SpecObd == InitObd /\ [][NextObd]_vars

----------------------------------------------------------------------------
(* The DTC byte codec: SpecCodec. One code is encoded by to_bytes and the  *)
(* two bytes are read back.                                                *)

CodeLetters == {"P", "C", "B", "U"}

FirstDigits == {"0", "1", "2", "3"}

HexDigits == { HexChar(n) : n \in 0..15 }

\* Every code P0000 ... U3FFF
CodecCodes ==
    { <<l, d1, d2, d3, d4>> : l \in CodeLetters, d1 \in FirstDigits,
                              d2 \in HexDigits, d3 \in HexDigits, d4 \in HexDigits }

\* DiagnosticTroubleCode(code).to_bytes()
EncodeCode ==
    /\ codec.pc = "code"
    /\ LET r == to_bytes(codec.code)
       IN  codec' = IF r.ok THEN [codec EXCEPT !.pc = "encoded", !.bytes = r.bytes]
                    ELSE [codec EXCEPT !.pc = "raised"]
    /\ UNCHANGED <<now, tpVars, udsVars, dtcVars, vehVars, obdVars, ecuVars, lifeVars, inVars>>

\* The client reads the two bytes back
DecodeBytes ==
    /\ codec.pc = "encoded"
    /\ codec' = [codec EXCEPT !.pc = "decoded",
                              !.decoded = decode_dtc(codec.bytes[1], codec.bytes[2])]
    /\ UNCHANGED <<now, tpVars, udsVars, dtcVars, vehVars, obdVars, ecuVars, lifeVars, inVars>>

InitCodec ==
    /\ now = 0
    /\ TpAtRest
    /\ UdsAtRest
    /\ DtcAtRest
    /\ VehAtRest
    /\ ObdAtRest
    /\ codec \in { [NoCodec EXCEPT !.pc = "code", !.code = c] : c \in CodecCodes }
    /\ EcuAtRest
    /\ LifeAtRest
    /\ InboundAtRest

NextCodec == EncodeCode \/ DecodeBytes

SpecCodec == InitCodec /\ [][NextCodec]_vars

----------------------------------------------------------------------------
(* The units on the shared bus: SpecBus. A tester puts Single-frame        *)
(* requests on the bus, addressed to one unit or to the functional         *)
(* address; each unit's _run loop takes the frames off its own socket.     *)

BusAddresses ==
    {FUNCTIONAL_ADDRESS, ENGINE_request_id, TRANSMISSION_request_id, ABS_request_id}

\* An OBD request (mode 03) and a UDS request (TesterPresent).
BusPayloads == {<<3, 0>>, <<62, 0>>}

MaxBusRequests == 2

TesterFrames == SelectSeq(can_bus, LAMBDA f : f.sender = 0)

\* The tester sends one request frame.
TesterSend ==
    /\ Len(TesterFrames) < MaxBusRequests
    /\ \E address \in BusAddresses, payload \in BusPayloads :
           LET msg == Message(address, create_single_frame(payload, TRUE).frame)
           IN  /\ can_bus' = Append(can_bus, BusFrame(0, msg))
               /\ ecus' = Deliver(ecus, 0, msg)
    /\ UNCHANGED <<now, tpVars, udsVars, dtcVars, vehVars, obdVars, codecVars, lifeVars, inVars>>

\* The frame carrying a response (responses longer than a Single frame start
\* with their First frame).
ResponseMessage(identity, response) ==
    IF Len(response) <= SINGLE_MAX_DATA
    THEN Message(identity.response_id, create_single_frame(response, TRUE).frame)
    ELSE Message(identity.response_id,
                 create_first_frame(Len(response), response, TRUE).frame)

\* One round of MockECU._run of unit i: a frame is taken off the socket; it
\* is handled only when its arbitration ID is the unit's own request ID.
UnitRun(i) ==
    /\ ecus[i].rxq # <<>>
    /\ LET identity == ecu_identities[i]
           msg == Head(ecus[i].rxq)
           e == [ecus[i] EXCEPT !.rxq = Tail(@)]
           got == unit_receive_frame(identity, msg)
       IN  \E fresh_seed \in SeedsDrawn(got.payload) :
           LET r == process_service(e, got.payload, now, fresh_seed)
               sends == r.kind = "bytes" /\ r.response # <<>>
               done == [r.ecu EXCEPT !.handled =
                           Append(@, [arbitration_id |-> msg.arbitration_id,
                                      payload |-> got.payload, kind |-> r.kind,
                                      sent |-> IF sends THEN r.response ELSE <<>>])]
           IN  IF msg.arbitration_id # identity.request_id \/ ~got.ok
               THEN /\ ecus' = [ecus EXCEPT ![i] = e]
                    /\ UNCHANGED can_bus
               ELSE IF sends
               THEN LET answer == ResponseMessage(identity, r.response)
                    IN  /\ can_bus' = Append(can_bus, BusFrame(i, answer))
                        /\ ecus' = Deliver([ecus EXCEPT ![i] = done], i, answer)
               ELSE /\ ecus' = [ecus EXCEPT ![i] = done]
                    /\ UNCHANGED can_bus
    /\ UNCHANGED <<now, tpVars, udsVars, dtcVars, vehVars, obdVars, codecVars, lifeVars, inVars>>

InitBus ==
    /\ now = 0
    /\ TpAtRest
    /\ UdsAtRest
    /\ DtcAtRest
    /\ VehAtRest
    /\ ObdAtRest
    /\ CodecAtRest
    /\ EcuAtRest
    /\ LifeAtRest
    /\ InboundAtRest

NextBus ==
    \/ TesterSend
    \/ \E i \in Units : UnitRun(i)

SpecBus == InitBus /\ [][NextBus]_vars

----------------------------------------------------------------------------
(* One unit and its request handling: SpecEcu. The tester addresses the    *)
(* engine unit only; the requests include a seed request for level 3 and   *)
(* keys for it.                                                            *)

EcuPayloads ==
    { <<39, 5>>, <<39, 6>> \o ToBytes4(ExpectedKey(SEED_MIN)), <<39, 6>> \o ToBytes4(SEED_MIN),
      <<62, 0>>, <<3, 0>> }

MaxEcuRequests == 3

TesterSendEcu ==
    /\ Len(TesterFrames) < MaxEcuRequests
    /\ \E payload \in EcuPayloads :
           LET msg == Message(ENGINE_request_id, create_single_frame(payload, TRUE).frame)
           IN  /\ can_bus' = Append(can_bus, BusFrame(0, msg))
               /\ ecus' = Deliver(ecus, 0, msg)
    /\ UNCHANGED <<now, tpVars, udsVars, dtcVars, vehVars, obdVars, codecVars, lifeVars, inVars>>

NextEcu ==
    \/ TesterSendEcu
    \/ \E i \in Units : UnitRun(i)

SpecEcu == InitBus /\ [][NextEcu]_vars

----------------------------------------------------------------------------
(* A multi-frame response and what the tester sends meanwhile: SpecFc.     *)
(* The unit sends one response of more than 7 bytes; the tester puts       *)
(* Flow-Control frames of every status, and a new request, on the unit's   *)
(* request ID. The unit's socket (bus_to_sender) is read by                *)
(* _wait_for_flow_control while send() runs and by _run afterwards.        *)

FcPayloadLens == {8, 20}

\* The Flow-Control frames of the tester: status Continue-to-send, Wait and
\* Overflow, each with block-size byte 0, 1 and 2.
FcFrames ==
    { create_flow_control(fs, bs, 0, TRUE) :
          fs \in {FlowStatus_CONTINUE_TO_SEND, FlowStatus_WAIT, FlowStatus_OVERFLOW},
          bs \in {0, 1, 2} }

\* A new request of the tester: TesterPresent in a Single frame.
NewRequest == <<62, 0>>

NewRequestFrame == create_single_frame(NewRequest, TRUE).frame

MaxTesterFrames == 2

\* The tester puts a frame on the unit's request ID.
TesterFrame ==
    /\ snd.pc # "idle"
    /\ Len(fc_log) < MaxTesterFrames
    /\ \E f \in FcFrames \cup {NewRequestFrame} :
           /\ bus_to_sender' = Append(bus_to_sender, Message(snd_rx_id, f))
           /\ fc_log' = Append(fc_log, f)
    /\ UNCHANGED <<now, config, snd, rcv, bus_to_peer, delivered, tx_log, fc_seen, udsVars, dtcVars, vehVars, obdVars, codecVars, ecuVars, lifeVars, inVars>>

\* One round of _run once send() has returned: the next frame on the socket
\* goes to _handle_request, and a payload receive_frame returns is handed to
\* _process_service.
RunRecv ==
    /\ snd.pc = "done"
    /\ bus_to_sender # <<>>
    /\ LET got == unit_receive_frame(ENGINE_ECU, Head(bus_to_sender))
       IN  delivered' = IF got.ok THEN Append(delivered, got.payload) ELSE delivered
    /\ bus_to_sender' = Tail(bus_to_sender)
    /\ UNCHANGED <<now, config, snd, rcv, bus_to_peer, tx_log, fc_log, fc_seen, udsVars, dtcVars, vehVars, obdVars, codecVars, ecuVars, lifeVars, inVars>>

InitFc ==
    /\ now = 0
    /\ config = DefaultConfig
    /\ snd \in { SndIdle(PayloadOf(n)) : n \in FcPayloadLens }
    /\ rcv = RcvIdle
    /\ bus_to_peer = <<>>
    /\ bus_to_sender = <<>>
    /\ delivered = <<>>
    /\ tx_log = <<>>
    /\ fc_log = <<>>
    /\ fc_seen = <<>>
    /\ UdsAtRest
    /\ DtcAtRest
    /\ VehAtRest
    /\ ObdAtRest
    /\ CodecAtRest
    /\ EcuAtRest
    /\ LifeAtRest
    /\ InboundAtRest

NextFc ==
    \/ SendStart
    \/ WaitForFlowControl
    \/ SendConsecutive
    \/ TesterFrame
    \/ RunRecv

SpecFc == InitFc /\ [][NextFc]_vars

----------------------------------------------------------------------------
(* send() against a peer that never stops: SpecSend. The peer puts Wait    *)
(* frames, Continue-to-send frames, malformed frames and frames on another *)
(* ID on the bus for as long as send() runs, at most one frame every       *)
(* NoisePeriodMs; the sending thread keeps running.                        *)

SendLens == {5, 8, 20}

SendConfigs == {DefaultConfig, ISOTPConfig(10, 4, TRUE)}

NoisePeriodMs == 400

\* The frames of the peer: Wait with block-size byte 0, 1 and 8, a
\* Continue-to-send, an empty frame and a frame of an unknown type (parse
\* raises on both), and a Continue-to-send on the request ID of another unit.
NoiseFrames ==
    { Message(snd_rx_id, create_flow_control(FlowStatus_WAIT, bs, 0, TRUE)) : bs \in {0, 1, 8} }
    \cup { Message(snd_rx_id, create_flow_control(FlowStatus_CONTINUE_TO_SEND, 0, 0, TRUE)),
           Message(snd_rx_id, <<>>),
           Message(snd_rx_id, Pad(<<64>>, TRUE)),
           Message(TRANSMISSION_request_id,
                   create_flow_control(FlowStatus_CONTINUE_TO_SEND, 0, 0, TRUE)) }

\* The peer puts one more frame on the bus while send() has not returned.
PeerNoise ==
    /\ snd.pc # "done"
    /\ Len(fc_log) < 1 + now \div NoisePeriodMs
    /\ \E m \in NoiseFrames :
           /\ bus_to_sender' = Append(bus_to_sender, m)
           /\ fc_log' = Append(fc_log, m.data)
    /\ UNCHANGED <<now, config, snd, rcv, bus_to_peer, delivered, tx_log, fc_seen, udsVars, dtcVars, vehVars, obdVars, codecVars, ecuVars, lifeVars, inVars>>

InitSend ==
    /\ now = 0
    /\ config \in SendConfigs
    /\ snd \in { SndIdle(PayloadOf(n)) : n \in SendLens }
    /\ rcv = RcvIdle
    /\ bus_to_peer = <<>>
    /\ bus_to_sender = <<>>
    /\ delivered = <<>>
    /\ tx_log = <<>>
    /\ fc_log = <<>>
    /\ fc_seen = <<>>
    /\ UdsAtRest
    /\ DtcAtRest
    /\ VehAtRest
    /\ ObdAtRest
    /\ CodecAtRest
    /\ EcuAtRest
    /\ LifeAtRest
    /\ InboundAtRest

\* The statements of send(), in the thread that called it.
SendThread ==
    \/ SendStart
    \/ WaitForFlowControl
    \/ SendConsecutive

NextSend ==
    \/ SendThread
    \/ PeerNoise

\* The thread that called send() is scheduled again and again.
SpecSend == InitSend /\ [][NextSend]_vars /\ WF_vars(SendThread)

----------------------------------------------------------------------------
(* Start and shutdown: SpecLife. The main thread calls start() and then    *)
(* stop() of MockOBDSystem, statement by statement; the two threads of     *)
(* each unit run their loops meanwhile.                                    *)

LifeRest == <<now, tpVars, udsVars, dtcVars, vehVars, obdVars, codecVars, ecuVars, thr, inVars>>

\* What a thread did, recorded once stop() has returned.
Did(op) == IF life.phase = "stopped" THEN life.late \cup {op} ELSE life.late

\* MockOBDSystem.start: every unit is started.
SystemStart ==
    /\ life.phase = "constructed"
    /\ life' = [life EXCEPT !.phase = "started",
                            !.units = [i \in Units |-> MockECU_start(life.units[i])]]
    /\ UNCHANGED LifeRest

\* The next statement of MockOBDSystem.stop: the stop of each unit in turn,
\* three statements each; after the last one stop returns.
SystemStopStep ==
    /\ life.phase \in {"started", "stopping"}
    /\ LET i == life.stop_unit
           e == MockECU_stop_step(life.units[i], life.stop_step)
           last_step == life.stop_step = StopSteps
           last_unit == i = Len(ecu_identities)
       IN  life' = [life EXCEPT
                       !.units[i] = e,
                       !.stop_step = IF last_step THEN 1 ELSE @ + 1,
                       !.stop_unit = IF last_step /\ ~last_unit THEN @ + 1 ELSE @,
                       !.phase = IF last_step /\ last_unit THEN "stopped" ELSE "stopping"]
    /\ UNCHANGED LifeRest

\* One step of the thread running _run of unit i: the test of the loop, the
\* bus.recv, or the handling of a request with the sending of its answer.
\* bus.recv on a bus that was shut down either raises, which ends the
\* thread, or returns nothing.
RunThreadStep(i) ==
    /\ LET e == life.units[i]
       IN  CASE e.run_pc = "test" ->
                    life' = [life EXCEPT !.units[i].run_pc =
                                             IF e.running THEN "recv" ELSE "exited"]
             [] e.run_pc = "recv" ->
                    \E next \in IF e.bus_open THEN {"handle", "test"} ELSE {"exited", "test"} :
                        life' = [life EXCEPT !.units[i].run_pc = next, !.late = Did("recv")]
             [] e.run_pc = "handle" ->
                    life' = [life EXCEPT !.units[i].run_pc = "test", !.late = Did("send")]
             [] OTHER -> FALSE
    /\ UNCHANGED LifeRest

\* One step of the thread running _simulation_loop of unit i: the test of
\* the loop, or the loop body with vehicle.update.
SimThreadStep(i) ==
    /\ LET e == life.units[i]
       IN  CASE e.sim_pc = "test" ->
                    life' = [life EXCEPT !.units[i].sim_pc =
                                             IF e.running THEN "body" ELSE "exited"]
             [] e.sim_pc = "body" ->
                    life' = [life EXCEPT !.units[i].sim_pc = "test", !.late = Did("update")]
             [] OTHER -> FALSE
    /\ UNCHANGED LifeRest

InitLife ==
    /\ now = 0
    /\ TpAtRest
    /\ UdsAtRest
    /\ DtcAtRest
    /\ VehAtRest
    /\ ObdAtRest
    /\ CodecAtRest
    /\ EcuAtRest
    /\ LifeAtRest
    /\ InboundAtRest

NextLife ==
    \/ SystemStart
    \/ SystemStopStep
    \/ \E i \in Units : RunThreadStep(i)
    \/ \E i \in Units : SimThreadStep(i)

SpecLife == InitLife /\ [][NextLife]_vars

----------------------------------------------------------------------------
(* The receiver under any sequence of inbound frames: SpecRcv. Frames of   *)
(* every kind arrive on the receiver's ID, in any order, with time passing *)
(* between them; each is handed to receive_frame as it arrives.            *)

RcvPayload == PayloadOf(20)

\* The three frames of the 20-byte payload.
FirstFrame20 == create_first_frame(20, Slice(RcvPayload, 0, FIRST_DATA_LEN), TRUE).frame

Consecutive1 == create_consecutive_frame(1, Slice(RcvPayload, 6, 13), TRUE)

Consecutive2 == create_consecutive_frame(2, Slice(RcvPayload, 13, 20), TRUE)

\* A First frame that declares a total length of 3.
ShortFirstFrame == <<16, 3, 1, 2, 3, 4, 5, 6>>

SingleFrame == create_single_frame(<<62, 0>>, TRUE).frame

\* A Single frame whose length nibble is 8.
LongSingleFrame == <<8, 1, 2, 3, 4, 5, 6, 7>>

\* A frame whose PCI high nibble is 4.
UnknownFrame == <<64, 0, 0, 0, 0, 0, 0, 0>>

RcvFrames ==
    { FirstFrame20, Consecutive1, Consecutive2, ShortFirstFrame,
      SingleFrame, LongSingleFrame, UnknownFrame }

MaxInbound == 3

\* Time steps between frames: the reception timeout exactly, and one more.
RcvDts == {DEFAULT_TIMEOUT_MS, DEFAULT_TIMEOUT_MS + 1}

MaxNowRcv == 2001

\* A frame arrives and is handed to receive_frame; the log keeps the frame,
\* the time, the payload returned, the number of frames sent in answer and
\* the receiver before and after.
InboundFrame ==
    /\ Len(inbound) < MaxInbound
    /\ \E f \in RcvFrames :
           LET res == receive_frame(rcv, Message(rcv_rx_id, f), config, now)
           IN  /\ rcv' = res.rcv
               /\ delivered' = delivered \o res.out
               /\ bus_to_sender' = bus_to_sender \o res.sent
               /\ fc_log' = fc_log \o [i \in 1..Len(res.sent) |-> res.sent[i].data]
               /\ inbound' = Append(inbound,
                                    [data |-> f, time |-> now, out |-> res.out,
                                     sent |-> Len(res.sent), pre |-> rcv, post |-> res.rcv])
    /\ UNCHANGED <<now, config, snd, bus_to_peer, tx_log, fc_seen, udsVars, dtcVars, vehVars, obdVars, codecVars, ecuVars, lifeVars>>

RcvAdvance ==
    /\ \E dt \in RcvDts :
           /\ now + dt <= MaxNowRcv
           /\ now' = now + dt
    /\ UNCHANGED <<tpVars, udsVars, dtcVars, vehVars, obdVars, codecVars, ecuVars, lifeVars, inVars>>

InitRcv ==
    /\ now = 0
    /\ TpAtRest
    /\ UdsAtRest
    /\ DtcAtRest
    /\ VehAtRest
    /\ ObdAtRest
    /\ CodecAtRest
    /\ EcuAtRest
    /\ LifeAtRest
    /\ InboundAtRest

NextRcv ==
    \/ InboundFrame
    \/ RcvAdvance

SpecRcv == InitRcv /\ [][NextRcv]_vars

----------------------------------------------------------------------------
(* Properties of the ISO-TP part                                           *)

\* The frames of the sender that the receiving endpoint has read so far.
FramesRead == Len(tx_log) - Len(bus_to_peer)

\* The Consecutive frames a payload of n > 7 bytes needs.
ConsecutiveNeeded(n) == (n - FIRST_DATA_LEN + CONSEC_DATA_LEN - 1) \div CONSEC_DATA_LEN

IsMultiFrame == Len(snd.payload) > SINGLE_MAX_DATA

\* The Consecutive frames emitted so far (every frame after the First frame).
ConsecutiveSent == IF IsMultiFrame /\ Len(tx_log) > 0 THEN Len(tx_log) - 1 ELSE 0

\* C1: ISO-TP round trip. Under the default configuration (block size 0,
\* stmin 0, padding on) and for a payload of at most 4095 bytes: every frame
\* either endpoint puts on the bus is exactly 8 bytes long; the receiver
\* never delivers anything but the payload, and at most once; a send() that
\* has read the receiver's Flow-Control does not fail; and once send() has
\* returned True and the receiver has read every frame, exactly one payload
\* is delivered and it equals the input byte for byte.
C1_RoundTrip ==
    (config = DefaultConfig /\ Len(snd.payload) <= ISOTP_MAX_LENGTH) =>
        /\ \A i \in 1..Len(tx_log) : Len(tx_log[i]) = CAN_DLC
        /\ \A i \in 1..Len(fc_log) : Len(fc_log[i]) = CAN_DLC
        /\ Len(delivered) <= 1
        /\ \A i \in 1..Len(delivered) : delivered[i] = snd.payload
        /\ (snd.pc = "done" /\ fc_seen # <<>>) => snd.result = "True"
        /\ (snd.result = "True" /\ bus_to_peer = <<>>) => delivered = <<snd.payload>>

\* A 260-byte payload (First frame with a non-zero high length nibble) has
\* gone through the default configuration and come out whole.
C1_Witness ==
    /\ config = DefaultConfig
    /\ Len(snd.payload) = 260
    /\ snd.result = "True"
    /\ Len(fc_log) = 1
    /\ delivered = <<snd.payload>>

\* C9: Flow-control block size honored. When the sender has read a
\* Continue-to-send Flow-Control (PCI byte 0x30) carrying a block size B > 0,
\* it emits the Consecutive frames in blocks of B: it never has more
\* Consecutive frames out than B per Continue-to-send read, and it does not
\* end the send before the first block (B frames, or all the payload needs
\* if that is fewer) is out.
C9_BlockSizeHonored ==
    \A i \in 1..Len(fc_seen) :
        LET B == fc_seen[i][2]
            cts == { j \in 1..Len(fc_seen) : fc_seen[j][1] = 48 }
        IN  (fc_seen[i][1] = 48 /\ B > 0) =>
                /\ ConsecutiveSent <= B * Cardinality(cts)
                /\ snd.pc = "done" =>
                       ConsecutiveSent >= Min(B, ConsecutiveNeeded(Len(snd.payload)))

\* The peer has answered the First frame with Continue-to-send, block size
\* 4, stmin 10 (30 04 0A ...): send has returned False without having
\* emitted one Consecutive frame.
C9_Witness ==
    /\ config.block_size = 4
    /\ fc_seen = <<<<48, 4, 10, 0, 0, 0, 0, 0>>>>
    /\ snd.pc = "done"
    /\ snd.result = "False"
    /\ ConsecutiveSent = 0
    /\ ConsecutiveNeeded(Len(snd.payload)) > 0

\* C10: Sequence numbering. The k-th Consecutive frame emitted carries
\* sequence number k mod 16 (1, 2, ..., 15, 0, 1, ...); while reassembling,
\* the receiver expects the sequence number of the next frame in that same
\* order; and a payload long enough to wrap the sequence number is
\* reassembled correctly.
C10_SequenceNumbering ==
    /\ IsMultiFrame =>
           \A k \in 1..ConsecutiveSent : tx_log[k + 1][1] = 32 + (k % 16)
    /\ (IsMultiFrame /\ rcv.receiving) => rcv.next_seq_num = FramesRead % 16
    /\ (Len(snd.payload) > 111 /\ snd.result = "True" /\ bus_to_peer = <<>>) =>
           delivered = <<snd.payload>>

\* The 200-byte payload: 28 Consecutive frames, the 16th with sequence
\* number 0, delivered whole.
C10_Witness ==
    /\ Len(snd.payload) = 200
    /\ ConsecutiveSent = 28
    /\ tx_log[16][1] = 32 + 15
    /\ tx_log[17][1] = 32
    /\ tx_log[18][1] = 32 + 1
    /\ delivered = <<snd.payload>>

\* The frames the whole stream of the payload consists of.
FramesNeeded ==
    IF IsMultiFrame THEN 1 + ConsecutiveNeeded(Len(snd.payload)) ELSE 1

\* C11: No partial responses. Once send() has returned, either every frame
\* of the stream is on the bus or none is; in particular a send() of a
\* multi-frame payload that returns False (no Continue-to-send within the
\* timeout, or an Overflow) has emitted no frame at all.
C11_NoPartialResponse ==
    snd.pc = "done" =>
        /\ Len(tx_log) \in {0, FramesNeeded}
        /\ snd.result = "False" => tx_log = <<>>

\* The First frame of a multi-frame payload is out, no Flow-Control was
\* read before the timeout ran out, and send() has returned False.
C11_Witness ==
    /\ IsMultiFrame
    /\ snd.pc = "done"
    /\ snd.result = "False"
    /\ fc_seen = <<>>
    /\ now - snd.start_time >= config.timeout_ms
    /\ Len(tx_log) = 1
    /\ tx_log[1][1] \div 16 = 1

----------------------------------------------------------------------------
(* Properties of the UDS engine                                            *)

LastService == uds_last.request[1]

LastIsSendKey ==
    Len(uds_last.request) >= 6 /\ uds_last.request[1] = 39 /\ uds_last.request[2] % 2 = 0

LastIsSeedRequest ==
    Len(uds_last.request) >= 2 /\ uds_last.request[1] = 39 /\ uds_last.request[2] % 2 = 1

\* The four key bytes of the last request
LastKeyBytes == SubSeq(uds_last.request, 3, 6)

\* The positive answer to a send-key: 0x67 and the sub-function
LastKeyAccepted ==
    uds_last.kind = "bytes" /\ uds_last.response = <<103, uds_last.request[2]>>

\* seed XOR 0x12345678, byte by byte on the big-endian bytes 12 34 56 78
RightKeyBytes(seed) ==
    LET b == ToBytes4(seed)
    IN  <<BitXor(b[1], 18, 8), BitXor(b[2], 52, 8), BitXor(b[3], 86, 8), BitXor(b[4], 120, 8)>>

\* C2: Session timeout. A request other than Tester Present (0x3E) that
\* arrives in a non-DEFAULT session more than S3 (5 s) after the request
\* before it is dispatched with session DEFAULT and security LOCKED: the
\* service handler already sees the reverted state, so 0x2F and 0x34 answer
\* NRC 0x7F and 0x2E answers NRC 0x33.
C2_SessionTimeout ==
    (/\ uds_last.request # <<>>
     /\ LastService # 62
     /\ uds_last.pre_session # DiagnosticSession_DEFAULT
     /\ uds_last.idle > SESSION_TIMEOUT_MS) =>
        /\ uds_last.disp_session = DiagnosticSession_DEFAULT
        /\ uds_last.disp_security = SecurityLevel_LOCKED
        /\ LastService = 47 => uds_last.response = <<127, 47, 127>>
        /\ LastService = 46 => uds_last.response = <<127, 46, 51>>
        /\ LastService = 52 => uds_last.response = <<127, 52, 127>>
        /\ LastService \notin {16, 39} =>
               /\ uds.current_session = DiagnosticSession_DEFAULT
               /\ uds.security_level = SecurityLevel_LOCKED

\* A write by identifier is refused with NRC 0x33 in a session that was
\* EXTENDED and idle for more than S3, after the same write had been accepted
\* (the identifier holds the written value, so security was unlocked).
C2_Witness ==
    /\ uds_last.request = <<46, 1, 0, 170>>
    /\ uds_last.pre_session = DiagnosticSession_EXTENDED
    /\ uds_last.idle > SESSION_TIMEOUT_MS
    /\ uds_last.response = <<127, 46, 51>>
    /\ uds.dids[256] = <<170>>

\* C3: Security key acceptance. A send-key request (service 0x27, even
\* sub-function, four key bytes) is answered positively only when a seed s
\* is outstanding and the key equals s XOR 0x12345678, and only then does the
\* security level change; with a seed outstanding every other key is answered
\* NRC 0x35 and leaves the security level unchanged; with no seed
\* outstanding the answer is NRC 0x24.
C3_KeyAcceptance ==
    LastIsSendKey =>
        /\ uds_last.pre_seed = <<>> =>
               /\ uds_last.response = <<127, 39, 36>>
               /\ uds.security_level = uds_last.disp_security
        /\ (uds_last.pre_seed # <<>> /\ LastKeyBytes # RightKeyBytes(uds_last.pre_seed[1])) =>
               /\ uds_last.response = <<127, 39, 53>>
               /\ uds.security_level = uds_last.disp_security
        /\ (LastKeyAccepted \/ uds.security_level # uds_last.disp_security) =>
               /\ uds_last.pre_seed # <<>>
               /\ LastKeyBytes = RightKeyBytes(uds_last.pre_seed[1])

\* The key FF FF FF FF XOR 12 34 56 78 = ED CB A9 87 has been accepted for
\* the seed FF FF FF FF and has raised the security level from LOCKED to L1.
C3_Witness ==
    /\ uds_last.request = <<39, 2, 237, 203, 169, 135>>
    /\ uds_last.pre_seed = <<SEED_MAX>>
    /\ LastKeyAccepted
    /\ uds_last.disp_security = SecurityLevel_LOCKED
    /\ uds.security_level = SecurityLevel_LEVEL_1

\* C4: Attempt lockout. After three wrong keys in a row (answers NRC 0x35
\* with no accepted key in between) every seed request for a level above the
\* current one is answered NRC 0x36 and issues no seed, and a seed request is
\* refused like that only then; an accepted key resets the attempt counter to
\* 0, so the counter always equals the number of wrong keys since the last
\* accepted key.
C4_AttemptLockout ==
    /\ (LastIsSeedRequest /\ uds_last.wrong_run >= 3
        /\ (uds_last.request[2] + 1) \div 2 > uds_last.disp_security) =>
           /\ uds_last.response = <<127, 39, 54>>
           /\ uds.current_seed = <<>>
    /\ (LastIsSeedRequest /\ uds_last.response = <<127, 39, 54>>) => uds_last.wrong_run >= 3
    /\ (LastIsSendKey /\ LastKeyAccepted) => uds.security_attempts = 0
    /\ uds.security_attempts = uds_last.wrong_run

\* A seed request for level 2 is refused with NRC 0x36 at security level L1:
\* level 1 was unlocked first, then three wrong keys followed.
C4_Witness ==
    /\ uds_last.request = <<39, 3>>
    /\ uds_last.response = <<127, 39, 54>>
    /\ uds_last.wrong_run = 3
    /\ uds.security_level = SecurityLevel_LEVEL_1

----------------------------------------------------------------------------
(* Properties of the fault registry                                        *)

LastInjected == dtc_last.op = "inject" /\ dtc_last.ok

LastCleared == dtc_last.op = "clear"

Active == {DTCState_CONFIRMED, DTCState_PERMANENT}

\* C5: DTC lifecycle. With threshold 2, the first inject_dtc of a catalog
\* code the registry does not hold leaves it PENDING with detection_count 1;
\* the second moves a code that is not emission related (P0100, P0700) to
\* CONFIRMED and an emission-related code (P0420) to PERMANENT; no code is
\* CONFIRMED or PERMANENT with fewer than 2 detections; an inject of a
\* CONFIRMED or PERMANENT code only adds 1 to its count.
C5_DtcLifecycle ==
    /\ (LastInjected /\ dtc_last.pre_state = "absent") =>
           /\ StateOf(dtc, dtc_last.code) = DTCState_PENDING
           /\ CountOf(dtc, dtc_last.code) = 1
    /\ (LastInjected /\ dtc_last.pre_state = DTCState_PENDING /\ dtc_last.pre_count = 1) =>
           /\ CountOf(dtc, dtc_last.code) = 2
           /\ dtc_last.code \in {P0100, P0700} =>
                  StateOf(dtc, dtc_last.code) = DTCState_CONFIRMED
           /\ dtc_last.code = P0420 => StateOf(dtc, dtc_last.code) = DTCState_PERMANENT
    /\ \A i \in 1..Len(dtc.dtcs) :
           dtc.dtcs[i].state \in Active => dtc.dtcs[i].detection_count >= 2
    /\ (LastInjected /\ dtc_last.pre_state \in Active) =>
           /\ StateOf(dtc, dtc_last.code) = dtc_last.pre_state
           /\ CountOf(dtc, dtc_last.code) = dtc_last.pre_count + 1

\* The second inject of P0420 has made it PERMANENT while P0100, injected
\* three times, is CONFIRMED with count 3 and P0700 is PENDING.
C5_Witness ==
    /\ LastInjected
    /\ dtc_last.code = P0420
    /\ dtc_last.pre_state = DTCState_PENDING
    /\ StateOf(dtc, P0420) = DTCState_PERMANENT
    /\ StateOf(dtc, P0100) = DTCState_CONFIRMED
    /\ CountOf(dtc, P0100) = 3
    /\ StateOf(dtc, P0700) = DTCState_PENDING

\* C6: MIL correctness. After every registry operation (inject_dtc,
\* clear_dtcs with either flag, drive_cycle_complete) is_mil_on() is true if
\* and only if some code in state CONFIRMED or PERMANENT has mil_illuminate.
C6_MilCorrectness ==
    dtc_last.op \in {"inject", "clear", "drive_cycle"} =>
        (is_mil_on(dtc) <=>
            \E i \in 1..Len(dtc.dtcs) :
                dtc.dtcs[i].state \in Active /\ dtc.dtcs[i].mil_illuminate)

\* P0420 was PERMANENT and has been cleared to HISTORY with clear_permanent
\* = True; P0700, which does not light the MIL, has then been injected to
\* CONFIRMED: a CONFIRMED code is held and the MIL is off.
C6_Witness ==
    /\ dtc_last.op = "inject"
    /\ dtc_last.code = P0700
    /\ StateOf(dtc, P0700) = DTCState_CONFIRMED
    /\ StateOf(dtc, P0420) = DTCState_HISTORY
    /\ CountOf(dtc, P0420) >= 2
    /\ ~is_mil_on(dtc)

\* C7: Clear semantics for codes. Right after clear_dtcs no code is PENDING
\* or CONFIRMED; with clear_permanent = False every code that was PERMANENT
\* before is still PERMANENT; with clear_permanent = True no code is
\* PERMANENT.
C7_ClearSemantics ==
    (LastCleared /\ dtc_last.entry = "registry") =>
        /\ CodesIn(dtc, {DTCState_PENDING, DTCState_CONFIRMED}) = {}
        /\ ~dtc_last.clear_permanent =>
               dtc_last.pre_permanent \subseteq CodesIn(dtc, {DTCState_PERMANENT})
        /\ dtc_last.clear_permanent => CodesIn(dtc, {DTCState_PERMANENT}) = {}

\* An ordinary clear of a registry that held P0420 PERMANENT, P0100 and
\* P0700 PENDING or CONFIRMED: P0420 is still PERMANENT, the others are in
\* HISTORY.
C7_Witness ==
    /\ LastCleared
    /\ ~dtc_last.clear_permanent
    /\ dtc_last.pre_permanent = {P0420}
    /\ dtc_last.pre_active = {P0100, P0700}
    /\ StateOf(dtc, P0420) = DTCState_PERMANENT
    /\ StateOf(dtc, P0100) = DTCState_HISTORY
    /\ StateOf(dtc, P0700) = DTCState_HISTORY

----------------------------------------------------------------------------
(* Properties of the clear entry points                                    *)

CountersReset ==
    /\ veh.distance_since_clear = 0
    /\ veh.distance_with_mil = 0
    /\ veh.warmups_since_clear = 0
    /\ veh.drive_cycle.complete = {}

\* C8: Clear resets counters. Right after a Clear, whichever entry point
\* performed it (OBD mode 04, UDS service 0x14 with group FFFFFF, the
\* registry clear or the coordinator clear of the control surface),
\* distance-since-clear, distance-with-MIL and the warmup counter are 0 and
\* all ten drive-cycle monitors read incomplete.
C8_ClearResetsCounters == LastCleared => CountersReset

\* The same for OBD mode 04 alone, which does reset them.
C8_Mode04ResetsCounters == (LastCleared /\ dtc_last.entry = "mode04") => CountersReset

\* UDS 14 FF FF FF has just cleared the registry of a vehicle that has had
\* a cold start and has moved: the counters keep their values.
C8_Witness ==
    /\ LastCleared
    /\ dtc_last.entry = "uds14"
    /\ veh.warmups_since_clear = 1
    /\ veh.distance_since_clear > 0

----------------------------------------------------------------------------
(* Properties of the OBD service handler                                   *)

\* The two bytes of the three codes injected, written out
TwoBytesOf(code) ==
    CASE code = P0420 -> <<4, 32>> [] code = P0100 -> <<1, 0>> [] code = P0700 -> <<7, 0>>

\* The answer to a read: sid, the number of codes in the given states, and
\* the two bytes of each of them
IsReadAnswer(sid, states) ==
    LET codes == CodesIn(dtc, states)
        n == Cardinality(codes)
        response == obd_last.response
    IN  /\ obd_last.kind = "bytes"
        /\ Len(response) = 2 + 2 * n
        /\ response[1] = sid
        /\ response[2] = n
        /\ { <<response[2 * k + 1], response[2 * k + 2]>> : k \in 1..n }
               = { TwoBytesOf(c) : c \in codes }

\* C12: Stored-DTC read. The one-byte request 03 is answered with 0x43, the
\* count and the two bytes of every CONFIRMED and PERMANENT code (43 00 when
\* there are none, 43 01 04 20 when P0420 alone is stored); the one-byte
\* requests 07 and 0A are answered likewise, with 0x47 for the PENDING codes
\* and with 0x4A for the PERMANENT ones.
C12_StoredDtcRead ==
    /\ obd_last.request = <<3>> =>
           IsReadAnswer(67, {DTCState_CONFIRMED, DTCState_PERMANENT})
    /\ obd_last.request = <<7>> => IsReadAnswer(71, {DTCState_PENDING})
    /\ obd_last.request = <<10>> => IsReadAnswer(74, {DTCState_PERMANENT})

\* The same for the requests 03 00, 07 00 and 0A 00, which are answered so.
C12_TwoByteRead ==
    /\ obd_last.request = <<3, 0>> =>
           IsReadAnswer(67, {DTCState_CONFIRMED, DTCState_PERMANENT})
    /\ obd_last.request = <<7, 0>> => IsReadAnswer(71, {DTCState_PENDING})
    /\ obd_last.request = <<10, 0>> => IsReadAnswer(74, {DTCState_PERMANENT})

\* P0420 has been injected twice and is stored; the request 03 has been
\* handed to process, which has returned None.
C12_Witness ==
    /\ obd_last.request = <<3>>
    /\ obd_last.kind = "None"
    /\ CodesIn(dtc, {DTCState_CONFIRMED, DTCState_PERMANENT}) = {P0420}
    /\ CountOf(dtc, P0420) = 2

\* 03 00 with P0420 stored is answered 43 01 04 20.
C12_TwoByteWitness ==
    /\ obd_last.request = <<3, 0>>
    /\ obd_last.response = <<67, 1, 4, 32>>

----------------------------------------------------------------------------
(* Properties of the DTC byte codec                                        *)

IsDecimal(code) == \A i \in 2..5 : DecDigit(code[i]) >= 0

\* C13: DTC codec round trip. Every code made of a letter of P, C, B, U, a
\* first digit 0..3 and three hexadecimal digits is encoded to two bytes,
\* and reading the two bytes back gives the same code.
C13_CodecRoundTrip ==
    /\ codec.pc # "raised"
    /\ codec.pc = "decoded" => codec.decoded = codec.code

\* The same for the codes whose digits are all decimal, and the layout of
\* the bytes: the letter in bits 6-7, digit 1 in bits 4-5, digit 2 in bits
\* 0-3 of the first byte, digits 3 and 4 as the nibbles of the second.
C13_DecimalRoundTrip ==
    IsDecimal(codec.code) =>
        /\ codec.pc # "raised"
        /\ codec.pc = "decoded" => codec.decoded = codec.code
        /\ codec.pc \in {"encoded", "decoded"} =>
               /\ TypeLetter(codec.bytes[1] \div 64) = codec.code[1]
               /\ (codec.bytes[1] \div 16) % 4 = DecDigit(codec.code[2])
               /\ codec.bytes[1] % 16 = DecDigit(codec.code[3])
               /\ codec.bytes[2] \div 16 = DecDigit(codec.code[4])
               /\ codec.bytes[2] % 16 = DecDigit(codec.code[5])

\* to_bytes has raised on P0A00.
C13_Witness ==
    /\ codec.code = <<"P", "0", "A", "0", "0">>
    /\ codec.pc = "raised"

\* U3999 has gone through to_bytes (F9 99) and back.
C13_DecimalWitness ==
    /\ codec.code = <<"U", "3", "9", "9", "9">>
    /\ codec.bytes = <<249, 153>>
    /\ codec.decoded = codec.code

----------------------------------------------------------------------------
(* Properties of the UDS engine: the DID table, the download services,     *)
(* the lockout and the activity timestamp                                  *)

LastIsWrite == uds_last.request # <<>> /\ LastService = 46

\* The identifier named by the last request
LastDid == uds_last.request[2] * 256 + uds_last.request[3]

DidsUnchanged == uds.dids = uds_last.pre_dids

\* C14: DID write protection. A Write-by-DID request changes an entry of
\* the table only if the security level at dispatch is at least L1; with
\* security LOCKED the answer is 7F 2E 33 and the table is unchanged; for an
\* identifier that is not in the table the answer is 7F 2E 31; and no entry
\* is ever added to or removed from the table.
C14_DidWriteProtection ==
    /\ DOMAIN uds.dids = DOMAIN InitialDids
    /\ LastIsWrite =>
           /\ ~DidsUnchanged => uds_last.disp_security >= SecurityLevel_LEVEL_1
           /\ uds_last.disp_security = SecurityLevel_LOCKED =>
                  /\ uds_last.response = <<127, 46, 51>>
                  /\ DidsUnchanged
           /\ (Len(uds_last.request) >= 3 /\ LastDid \notin DOMAIN uds_last.pre_dids) =>
                  uds_last.response = <<127, 46, 49>>

\* C14, amended: the same with the order of the checks. A request of fewer
\* than four bytes is answered 7F 2E 13 whatever the security level; a
\* longer one is answered 7F 2E 33 when security is LOCKED, whatever the
\* identifier; with security unlocked it is answered 7F 2E 31 for an
\* identifier that is not in the table, and otherwise 6E hi lo with the
\* entry set to the bytes after the identifier. The table changes in the
\* last case only, and its identifiers never change.
C14_DidWriteProtectionAmended ==
    /\ DOMAIN uds.dids = DOMAIN InitialDids
    /\ LastIsWrite =>
           LET long == Len(uds_last.request) >= 4
               locked == uds_last.disp_security = SecurityLevel_LOCKED
               known == LastDid \in DOMAIN uds_last.pre_dids
           IN  /\ ~DidsUnchanged => uds_last.disp_security >= SecurityLevel_LEVEL_1
               /\ ~long => uds_last.response = <<127, 46, 19>> /\ DidsUnchanged
               /\ (long /\ locked) => uds_last.response = <<127, 46, 51>> /\ DidsUnchanged
               /\ (long /\ ~locked /\ ~known) =>
                      uds_last.response = <<127, 46, 49>> /\ DidsUnchanged
               /\ (long /\ ~locked /\ known) =>
                      /\ uds_last.response = <<110, uds_last.request[2], uds_last.request[3]>>
                      /\ uds.dids = [uds_last.pre_dids EXCEPT
                                        ![LastDid] = SubSeq(uds_last.request, 4,
                                                            Len(uds_last.request))]

\* The write 2E 01 00 AA has been refused with NRC 0x33 under LOCKED
\* security, after the same write had been accepted under unlocked security.
C14_Witness ==
    /\ uds_last.request = <<46, 1, 0, 170>>
    /\ uds_last.disp_security = SecurityLevel_LOCKED
    /\ uds_last.response = <<127, 46, 51>>
    /\ uds.dids[256] = <<170>>
    /\ uds.dids[257] = InitialDids[257]

\* The last request was answered positively: with the service plus 0x40
LastPositive ==
    /\ uds_last.request # <<>>
    /\ uds_last.kind = "bytes"
    /\ uds_last.response[1] = LastService + 64

\* C15: Download suite preconditions. Each of the services 0x34, 0x36 and
\* 0x37 is answered positively only if the session at dispatch is
\* PROGRAMMING and security is unlocked; in any other session the answer is
\* NRC 0x7F, and in the PROGRAMMING session with security LOCKED it is NRC
\* 0x33.
C15_DownloadPreconditions ==
    (uds_last.request # <<>> /\ LastService \in {52, 54, 55}) =>
        /\ LastPositive =>
               /\ uds_last.disp_session = DiagnosticSession_PROGRAMMING
               /\ uds_last.disp_security # SecurityLevel_LOCKED
        /\ uds_last.disp_session # DiagnosticSession_PROGRAMMING =>
               uds_last.response = <<127, LastService, 127>>
        /\ (/\ uds_last.disp_session = DiagnosticSession_PROGRAMMING
            /\ uds_last.disp_security = SecurityLevel_LOCKED) =>
               uds_last.response = <<127, LastService, 51>>

\* The same for service 0x34 alone, which does check both.
C15_RequestDownloadPreconditions ==
    (uds_last.request # <<>> /\ LastService = 52) =>
        /\ LastPositive <=>
               /\ uds_last.disp_session = DiagnosticSession_PROGRAMMING
               /\ uds_last.disp_security # SecurityLevel_LOCKED
        /\ uds_last.disp_session # DiagnosticSession_PROGRAMMING =>
               uds_last.response = <<127, 52, 127>>
        /\ (/\ uds_last.disp_session = DiagnosticSession_PROGRAMMING
            /\ uds_last.disp_security = SecurityLevel_LOCKED) =>
               uds_last.response = <<127, 52, 51>>

\* Transfer-data 36 01 has been answered 76 01 in the DEFAULT session with
\* security LOCKED.
C15_Witness ==
    /\ uds_last.request = <<54, 1>>
    /\ uds_last.disp_session = DiagnosticSession_DEFAULT
    /\ uds_last.disp_security = SecurityLevel_LOCKED
    /\ uds_last.response = <<118, 1>>

\* 34 has been answered positively in the PROGRAMMING session, unlocked.
C15_RequestDownloadWitness ==
    /\ uds_last.request = <<52>>
    /\ uds_last.disp_session = DiagnosticSession_PROGRAMMING
    /\ uds_last.disp_security = SecurityLevel_LEVEL_1
    /\ uds_last.response = <<116, 32, 16, 0>>

\* A step that processes a request (the clock stands still)
IsRequestStep == now' = now /\ uds_last'.request # <<>> /\ uds_last'.time = now

\* The request of this step follows a session change: the request before
\* it was a service 0x10 answered positively, or the timeout check of this
\* step has reverted the session.
FollowsSessionChange ==
    \/ uds_last.request # <<>> /\ LastService = 16 /\ LastPositive
    \/ /\ uds_last'.pre_session # DiagnosticSession_DEFAULT
       /\ uds_last'.disp_session = DiagnosticSession_DEFAULT

\* C16: Lockout ends on session change. A seed request for a level above
\* the current one that follows a session change (a service 0x10 answered
\* positively, or the S3 timeout revert) is not refused with NRC 0x36: it is
\* answered with a fresh seed, whatever the number of wrong keys before.
C16_LockoutEndsOnSessionChange ==
    [][ (/\ IsRequestStep
         /\ FollowsSessionChange
         /\ LastIsSeedRequest'
         /\ (uds_last'.request[2] + 1) \div 2 > uds_last'.disp_security) =>
            /\ uds_last'.response # <<127, 39, 54>>
            /\ uds'.current_seed # <<>>
            /\ uds_last'.response = <<103, uds_last'.request[2]>> \o ToBytes4(uds'.current_seed[1])
      ]_vars

\* Three wrong keys have been answered, the EXTENDED session has timed out
\* and been reverted at this request, and the seed request is still refused
\* with NRC 0x36.
C16_Witness ==
    /\ uds_last.request = <<39, 1>>
    /\ uds_last.wrong_run = 3
    /\ uds_last.pre_session = DiagnosticSession_EXTENDED
    /\ uds_last.disp_session = DiagnosticSession_DEFAULT
    /\ uds_last.response = <<127, 39, 54>>

\* C17: Activity refresh. A request other than Tester Present that arrives
\* in a non-DEFAULT session less than S3 after a request that was answered
\* positively is dispatched in that session and with its security level:
\* the session has not timed out.
C17_ActivityRefresh ==
    [][ (/\ IsRequestStep
         /\ LastPositive
         /\ uds.current_session # DiagnosticSession_DEFAULT
         /\ uds_last'.idle < SESSION_TIMEOUT_MS) =>
            /\ uds_last'.disp_session = uds.current_session
            /\ uds_last'.disp_security = uds.security_level
      ]_vars

\* A read by identifier 2.5 s after the request before it, in the EXTENDED
\* session with security unlocked, has been dispatched in the DEFAULT
\* session with security LOCKED.
C17_Witness ==
    /\ uds_last.request = <<34, 1, 0>>
    /\ uds_last.idle = 2500
    /\ uds_last.pre_session = DiagnosticSession_EXTENDED
    /\ uds_last.disp_session = DiagnosticSession_DEFAULT
    /\ uds_last.disp_security = SecurityLevel_LOCKED
    /\ uds.dids[256] = <<170>>

\* C29: Expiry is not undone by Tester Present. When a Tester Present has
\* come more than S3 after the request before it, in a non-DEFAULT session,
\* the next request other than Tester Present is dispatched with session
\* DEFAULT and security LOCKED.
C29_ExpiryNotUndone ==
    (uds_last.after_late_tp /\ LastService # 62) =>
        /\ uds_last.disp_session = DiagnosticSession_DEFAULT
        /\ uds_last.disp_security = SecurityLevel_LOCKED

\* A write by identifier right after a Tester Present that came 5001 ms
\* after its predecessor has been dispatched in the EXTENDED session with
\* security unlocked, and accepted.
C29_Witness ==
    /\ uds_last.after_late_tp
    /\ uds_last.request = <<46, 1, 0, 170>>
    /\ uds_last.idle = 0
    /\ uds_last.disp_session = DiagnosticSession_EXTENDED
    /\ uds_last.disp_security = SecurityLevel_LEVEL_1
    /\ uds_last.response = <<110, 1, 0>>

\* C30: Zero seed changes nothing. A seed request (service 0x27, odd
\* sub-function) for a level at or below the security level at dispatch is
\* answered 67 <sub> 00 00 00 00 and leaves the security level, the
\* outstanding seed and the attempt counter as they were.
C30_ZeroSeedChangesNothing ==
    [][ (/\ IsRequestStep
         /\ LastIsSeedRequest'
         /\ (uds_last'.request[2] + 1) \div 2 <= uds_last'.disp_security) =>
            /\ uds_last'.response = <<103, uds_last'.request[2], 0, 0, 0, 0>>
            /\ uds'.security_level = uds_last'.disp_security
            /\ uds'.current_seed = uds.current_seed
            /\ uds'.security_attempts = uds.security_attempts
      ]_vars

\* Security is at level 1, three wrong keys for level 2 have been counted,
\* and a seed request for level 1 has been answered with the zero seed.
C30_Witness ==
    /\ uds_last.request = <<39, 1>>
    /\ uds_last.response = <<103, 1, 0, 0, 0, 0>>
    /\ uds.security_level = SecurityLevel_LEVEL_1
    /\ uds.security_attempts = MAX_SECURITY_ATTEMPTS

\* C31: Attempt counter cap. In every reachable state of the UDS engine,
\* whatever requests and timeouts came before, the security attempt counter
\* is between 0 and 3.
C31_AttemptCounterCap ==
    uds.security_attempts \in 0..MAX_SECURITY_ATTEMPTS

\* The counter stands at 3 and a further key, sent more than S3 after the
\* request before it, has been answered NRC 0x24 without being counted.
C31_Witness ==
    /\ uds.security_attempts = MAX_SECURITY_ATTEMPTS
    /\ LastIsSendKey
    /\ uds_last.idle > SESSION_TIMEOUT_MS
    /\ uds_last.response = <<127, 39, 36>>

\* C38: Seed and key are bound to one level. Security level L (1 or 2) is
\* granted only by a send-key with sub-function 2L answering a seed that was
\* requested with sub-function 2L-1, and an accepted key never lowers the
\* security level.
C38_SeedKeyLevelBinding ==
    /\ (uds.security_level # uds_last.disp_security
        /\ uds.security_level \in {SecurityLevel_LEVEL_1, SecurityLevel_LEVEL_2}) =>
           /\ LastIsSendKey
           /\ LastKeyAccepted
           /\ uds_last.request[2] = 2 * uds.security_level
           /\ uds_last.pre_seed_sub = 2 * uds.security_level - 1
    /\ (LastIsSendKey /\ LastKeyAccepted) => uds.security_level >= uds_last.disp_security

\* The seed was requested with 27 01 (level 1) and its key, sent with
\* sub-function 04, has been accepted: security is at level 2.
C38_Witness ==
    /\ LastIsSendKey
    /\ LastKeyAccepted
    /\ uds_last.request[2] = 4
    /\ uds_last.pre_seed_sub = 1
    /\ uds_last.disp_security = SecurityLevel_LOCKED
    /\ uds.security_level = SecurityLevel_LEVEL_2

\* At level 1 a seed was requested with 27 03 and its key, sent with
\* sub-function 00, has been accepted: security is LOCKED.
C38_LoweredWitness ==
    /\ LastIsSendKey
    /\ LastKeyAccepted
    /\ uds_last.request[2] = 0
    /\ uds_last.pre_seed_sub = 3
    /\ uds_last.disp_security = SecurityLevel_LEVEL_1
    /\ uds.security_level = SecurityLevel_LOCKED

\* Lemma of C38: the security level changes within a request only on a
\* session control, which locks, and on an accepted send-key, which answers
\* an outstanding seed with its key; the level is then the key's
\* sub-function divided by 2 (0, 1 or 2), whatever sub-function the seed was
\* requested with.
C38_LevelFromKeySubFunction ==
    /\ uds.security_level # uds_last.disp_security =>
           \/ LastIsSendKey /\ LastKeyAccepted
           \/ LastService = 16 /\ uds.security_level = SecurityLevel_LOCKED
    /\ (LastIsSendKey /\ LastKeyAccepted) =>
           /\ uds_last.pre_seed # <<>>
           /\ uds_last.pre_seed_sub \in {1, 3}
           /\ LastKeyBytes = RightKeyBytes(uds_last.pre_seed[1])
           /\ uds.security_level = uds_last.request[2] \div 2
           /\ uds_last.request[2] \in {0, 2, 4}

\* The regular case: seed requested with 27 03, key sent with 27 04 at
\* level 1, security raised to level 2.
C38_LevelFromKeyWitness ==
    /\ LastIsSendKey
    /\ LastKeyAccepted
    /\ uds_last.request[2] = 4
    /\ uds_last.pre_seed_sub = 3
    /\ uds_last.disp_security = SecurityLevel_LEVEL_1
    /\ uds.security_level = SecurityLevel_LEVEL_2

----------------------------------------------------------------------------
(* Properties of the fault registry: PERMANENT codes and the HISTORY bound *)

\* C18: Permanent only for emission-related codes. In every state of the
\* registry, whatever the sequence of inject, clear (with either flag) and
\* drive-cycle tick, every code in state PERMANENT has is_emission_related
\* set and is one of the emission-related codes of the catalog.
C18_PermanentOnlyEmission ==
    \A i \in 1..Len(dtc.dtcs) :
        dtc.dtcs[i].state = DTCState_PERMANENT =>
            /\ dtc.dtcs[i].is_emission_related
            /\ dtc.dtcs[i].code \in EmissionCodes

\* P0420 is PERMANENT while P0100 and P0700, which have reached the
\* threshold as well, are CONFIRMED.
C18_Witness ==
    /\ StateOf(dtc, P0420) = DTCState_PERMANENT
    /\ StateOf(dtc, P0100) = DTCState_CONFIRMED
    /\ StateOf(dtc, P0700) = DTCState_CONFIRMED
    /\ CountOf(dtc, P0700) = 2

\* The codes the registry holds
AllCodes(m) == { m.dtcs[i].code : i \in 1..Len(m.dtcs) }

HistoryCodes(m) == CodesIn(m, {DTCState_HISTORY})

LastDetectedOf(m, code) == m.dtcs[IndexOf(m.dtcs, code)].last_detected

\* The codes of m that are in HISTORY once clear_dtcs has changed the
\* states: those in HISTORY already, the PENDING and CONFIRMED ones, and the
\* PERMANENT ones under clear_permanent
HistoryAfterClear(m, clear_permanent) ==
    CodesIn(m, {DTCState_HISTORY, DTCState_PENDING, DTCState_CONFIRMED}
               \cup (IF clear_permanent THEN {DTCState_PERMANENT} ELSE {}))

\* C19: History bound. After every registry operation at most 10 codes are
\* in HISTORY. An inject evicts nothing. A clear that would leave more than
\* 10 codes in HISTORY evicts just as many as exceed 10; every evicted code
\* was in HISTORY or was moved there by this clear, and was last detected
\* no later than every code that stays in HISTORY; no other code is removed.
C19_HistoryBound ==
    [][ /\ Cardinality(HistoryCodes(dtc')) <= MAX_HISTORY
        /\ (now' = now /\ dtc_last'.op = "inject") => AllCodes(dtc) \subseteq AllCodes(dtc')
        /\ (now' = now /\ dtc_last'.op = "clear") =>
               LET evicted == AllCodes(dtc) \ AllCodes(dtc')
                   history == HistoryAfterClear(dtc, dtc_last'.clear_permanent)
               IN  /\ evicted \subseteq history
                   /\ Cardinality(evicted) = Max(0, Cardinality(history) - MAX_HISTORY)
                   /\ HistoryCodes(dtc') = history \ evicted
                   /\ \A e \in evicted : \A k \in HistoryCodes(dtc') :
                          LastDetectedOf(dtc, e) <= LastDetectedOf(dtc', k)
      ]_vars

\* A clear has left 10 codes in HISTORY and has evicted P0301, last
\* detected at time 2, while P0300, the first code of the registry, injected
\* again after the first clear, has stayed.
C19_Witness ==
    /\ dtc_last.op = "clear"
    /\ Cardinality(HistoryCodes(dtc)) = MAX_HISTORY
    /\ P0301 \notin AllCodes(dtc)
    /\ StateOf(dtc, P0300) = DTCState_HISTORY
    /\ CountOf(dtc, P0300) = 2
    /\ dtc.dtcs[1].code = P0300

----------------------------------------------------------------------------
(* Properties of the units on the shared bus                               *)

\* Every socket has been read empty.
Quiescent == \A i \in Units : ecus[i].rxq = <<>>

RequestOf(f) == ISOTPFrame_parse(f.data).data

\* The service class of a request is supported by the unit.
SupportsClass(identity, payload) ==
    IF 1 <= payload[1] /\ payload[1] <= 10 THEN identity.supports_obd
    ELSE payload[1] >= 16 /\ identity.supports_uds

RECURSIVE PayloadsOf(_)
PayloadsOf(frames) ==
    IF frames = <<>> THEN <<>>
    ELSE <<RequestOf(Head(frames))>> \o PayloadsOf(Tail(frames))

RECURSIVE HandledPayloads(_)
HandledPayloads(handled) ==
    IF handled = <<>> THEN <<>>
    ELSE <<Head(handled).payload>> \o HandledPayloads(Tail(handled))

\* The broadcast requests of the tester that unit i is to receive.
BroadcastsFor(i) ==
    PayloadsOf(SelectSeq(TesterFrames,
        LAMBDA f : /\ f.arbitration_id = FUNCTIONAL_ADDRESS
                   /\ SupportsClass(ecu_identities[i], RequestOf(f))))

\* The broadcast requests unit i has handed to _process_service.
BroadcastsHandledBy(i) ==
    HandledPayloads(SelectSeq(ecus[i].handled,
        LAMBDA h : h.arbitration_id = FUNCTIONAL_ADDRESS))

RECURSIVE SendersOf(_)
SendersOf(frames) ==
    IF frames = <<>> THEN <<>>
    ELSE <<Head(frames).sender>> \o SendersOf(Tail(frames))

\* The units that put a frame on the bus, in the order of their frames.
Responders == SendersOf(SelectSeq(can_bus, LAMBDA f : f.sender # 0))

\* C20: once every unit has read its socket empty, each unit has been handed
\* exactly the functional-broadcast (0x7DF) requests whose service class it
\* supports, and after a single broadcast request the responses on the bus
\* come from exactly the supporting units, one each, in registration order.
C20_FunctionalBroadcast ==
    Quiescent =>
        /\ \A i \in Units : BroadcastsHandledBy(i) = BroadcastsFor(i)
        /\ (Len(TesterFrames) = 1 /\ TesterFrames[1].arbitration_id = FUNCTIONAL_ADDRESS) =>
               /\ Responders = SelectSeq(get_all_ecus_for_broadcast,
                      LAMBDA i : SupportsClass(ecu_identities[i], RequestOf(TesterFrames[1])))
               /\ \A k \in 2..Len(can_bus) :
                      can_bus[k].arbitration_id = ecu_identities[can_bus[k].sender].response_id

\* A TesterPresent request sent to the functional address has been read by
\* every unit, none has handled it and the bus carries no response.
C20_Witness ==
    /\ Quiescent
    /\ Len(can_bus) = 1
    /\ can_bus[1].sender = 0
    /\ can_bus[1].arbitration_id = FUNCTIONAL_ADDRESS
    /\ RequestOf(can_bus[1]) = <<62, 0>>
    /\ \A i \in Units : ecus[i].handled = <<>>

\* Physical addressing: once every socket is read empty, each unit has been
\* handed exactly the requests sent to its own request ID, whatever their
\* service class, and every response frame carries its sender's response ID.
C20_PhysicalAddressing ==
    Quiescent =>
        /\ \A i \in Units :
               HandledPayloads(ecus[i].handled) =
                   PayloadsOf(SelectSeq(TesterFrames,
                       LAMBDA f : get_ecu_for_address(f.arbitration_id) = i
                                  /\ f.arbitration_id # FUNCTIONAL_ADDRESS))
        /\ \A k \in 1..Len(can_bus) :
               can_bus[k].sender # 0 =>
                   can_bus[k].arbitration_id = ecu_identities[can_bus[k].sender].response_id

\* The transmission unit, which declares no OBD support, has answered an OBD
\* request sent to its own request ID.
C20_PhysicalWitness ==
    /\ Quiescent
    /\ Len(can_bus) = 2
    /\ can_bus[1].arbitration_id = TRANSMISSION_request_id
    /\ RequestOf(can_bus[1]) = <<3, 0>>
    /\ can_bus[2].sender = 2
    /\ RequestOf(can_bus[2]) = <<67, 0>>

----------------------------------------------------------------------------
(* Properties of one unit's request handling                               *)

\* The requests unit i handled whose handler raised an exception.
RaisedIn(i) == SelectSeq(ecus[i].handled, LAMBDA h : h.kind = "raise")

\* C21: every request whose handler raised an exception has been answered
\* with the negative response 7F <service> 10 (general reject).
C21_GeneralReject ==
    \A i \in Units : \A k \in 1..Len(RaisedIn(i)) :
        RaisedIn(i)[k].sent = <<127, RaisedIn(i)[k].payload[1], 16>>

\* The engine unit got a seed for level 3 and then the right key with
\* sub-function 06: the handler raised, nothing was sent for it, and the
\* unit went on to answer a later TesterPresent.
C21_Witness ==
    /\ Quiescent
    /\ Len(ecus[1].handled) = 3
    /\ ecus[1].handled[1].payload = <<39, 5>>
    /\ ecus[1].handled[2].payload[2] = 6
    /\ ecus[1].handled[2].kind = "raise"
    /\ ecus[1].handled[2].sent = <<>>
    /\ ecus[1].handled[3].sent = <<126, 0>>
    /\ Len(Responders) = 2

\* What a unit does send: an answer goes on the bus exactly for the requests
\* whose handler returned bytes, none for a handler that raised or returned
\* None.
C21_AnswerOnlyForBytes ==
    \A i \in Units : \A k \in 1..Len(ecus[i].handled) :
        (ecus[i].handled[k].kind = "bytes") = (ecus[i].handled[k].sent # <<>>)

----------------------------------------------------------------------------
(* Properties of a multi-frame response under the tester's frames          *)

\* The requests the tester has sent so far, in order.
RequestsSent ==
    LET frames == SelectSeq(fc_log, LAMBDA f : f[1] \div 16 = 0)
    IN  [k \in 1..Len(frames) |-> ISOTPFrame_parse(frames[k]).data]

\* C22: Arrival order without loss. Once send() has returned and the unit
\* has read every frame off its socket, every request the tester sent on
\* the request ID has been handed to _process_service, in arrival order,
\* also a request that arrived while the unit was waiting for Flow-Control.
C22_ArrivalOrderWithoutLoss ==
    (snd.pc = "done" /\ bus_to_sender = <<>>) => delivered = RequestsSent

\* A request arrived while send() was waiting for Flow-Control and was read
\* there; then Continue-to-send came, the response went out whole, and the
\* request has not been handed to _process_service.
C22_Witness ==
    /\ fc_log = <<NewRequestFrame, create_flow_control(FlowStatus_CONTINUE_TO_SEND, 0, 0, TRUE)>>
    /\ fc_seen = <<fc_log[2]>>
    /\ snd.pc = "done"
    /\ snd.result = "True"
    /\ bus_to_sender = <<>>
    /\ delivered = <<>>

\* A request that arrives after send() has returned is handed on.
C22_AfterResponse ==
    (snd.pc = "done" /\ bus_to_sender = <<>>) =>
        \E k \in 0..Len(RequestsSent) : delivered = SubSeq(RequestsSent, k + 1, Len(RequestsSent))

C22_AfterResponseWitness ==
    /\ snd.pc = "done"
    /\ bus_to_sender = <<>>
    /\ delivered = <<NewRequest>>
    /\ Len(RequestsSent) = 1
    /\ fc_seen # <<>>

\* The last Flow-Control frame _wait_for_flow_control has read.
LastFcSeen == fc_seen[Len(fc_seen)]

\* send() has returned False without one Consecutive frame.
AbortedBeforeConsecutive ==
    /\ snd.pc = "done"
    /\ snd.result = "False"
    /\ ConsecutiveSent = 0

\* send() is still in _wait_for_flow_control, or has left it on the timeout,
\* without one Consecutive frame.
StillListening ==
    /\ ConsecutiveSent = 0
    /\ \/ snd.pc = "wait_fc"
       \/ /\ snd.pc = "done"
          /\ snd.result = "False"
          /\ now - snd.start_time >= config.timeout_ms

\* C24: Overflow aborts. When the Flow-Control frame read after the First
\* frame has PCI byte 0x32 (Overflow), send() has returned False and no
\* Consecutive frame is out, whatever the other bytes of the frame.
C24_OverflowAborts ==
    (fc_seen # <<>> /\ LastFcSeen[1] = 48 + FlowStatus_OVERFLOW) => AbortedBeforeConsecutive

\* The only Flow-Control read is Overflow with block-size byte 0 (32 00 00),
\* and send() has returned True with every Consecutive frame out.
C24_Witness ==
    /\ fc_seen = <<create_flow_control(FlowStatus_OVERFLOW, 0, 0, TRUE)>>
    /\ snd.pc = "done"
    /\ snd.result = "True"
    /\ ConsecutiveSent = ConsecutiveNeeded(Len(snd.payload))

\* What decides is the byte after the PCI byte: any Flow-Control frame with
\* that byte at 2 or more aborts the send, whatever its status nibble.
C24_SecondByteAborts ==
    (fc_seen # <<>> /\ LastFcSeen[2] >= 2) => AbortedBeforeConsecutive

C24_SecondByteWitness ==
    /\ fc_seen = <<create_flow_control(FlowStatus_OVERFLOW, 2, 0, TRUE)>>
    /\ AbortedBeforeConsecutive

\* C25: Wait keeps listening. When the last Flow-Control frame read has PCI
\* byte 0x31 (Wait), no Consecutive frame is out and send() is still
\* listening (or has run into the timeout); and when Continue-to-send (PCI
\* byte 0x30) is read after nothing but Wait frames, within the timeout, the
\* send goes on to the Consecutive frames.
C25_WaitKeepsListening ==
    fc_seen # <<>> =>
        /\ LastFcSeen[1] = 48 + FlowStatus_WAIT => StillListening
        /\ (/\ LastFcSeen[1] = 48 + FlowStatus_CONTINUE_TO_SEND
            /\ \A k \in 1..(Len(fc_seen) - 1) : fc_seen[k][1] = 48 + FlowStatus_WAIT) =>
               (snd.pc = "send_cf" \/ (snd.pc = "done" /\ snd.result = "True"))

\* The only Flow-Control read is Wait with block-size byte 0 (31 00 00), and
\* send() has returned True with every Consecutive frame out.
C25_Witness ==
    /\ fc_seen = <<create_flow_control(FlowStatus_WAIT, 0, 0, TRUE)>>
    /\ snd.pc = "done"
    /\ snd.result = "True"
    /\ ConsecutiveSent = ConsecutiveNeeded(Len(snd.payload))

\* A Flow-Control frame whose byte after the PCI byte is 1 keeps the sender
\* listening, and one with 0 there, read after such frames, starts the
\* Consecutive frames.
C25_SecondByteWaits ==
    fc_seen # <<>> =>
        /\ LastFcSeen[2] = 1 => StillListening
        /\ LastFcSeen[2] = 0 => (snd.pc = "send_cf" \/ (snd.pc = "done" /\ snd.result = "True"))

C25_SecondByteWitness ==
    /\ Len(fc_seen) = 2
    /\ fc_seen[1][2] = 1
    /\ fc_seen[2][2] = 0
    /\ snd.pc = "done"
    /\ snd.result = "True"

----------------------------------------------------------------------------
(* Properties of start and shutdown                                        *)

\* C23: Deterministic shutdown. Once stop() has returned, every unit's
\* engine is stopped; a unit's bus is shut down only when its two threads
\* have left their loops; and after stop() has returned no unit thread has
\* done a bus receive, a bus send or a sensor update.
C23_DeterministicShutdown ==
    /\ life.phase = "stopped" => \A i \in Units : ~life.units[i].engine
    /\ \A i \in Units :
           ~life.units[i].bus_open =>
               ~ThreadAlive(life.units[i].run_pc) /\ ~ThreadAlive(life.units[i].sim_pc)
    /\ life.late = {}

\* stop() has returned, every bus is shut down, and threads that were
\* inside their loops have since done a bus receive and a sensor update.
C23_Witness ==
    /\ life.phase = "stopped"
    /\ \A i \in Units : ~life.units[i].bus_open
    /\ {"recv", "update"} \subseteq life.late

\* What stop() does bring about: when it has returned, every unit's flag is
\* down, its engine is stopped and its bus is shut down.
C23_StopEffects ==
    life.phase = "stopped" =>
        \A i \in Units :
            /\ ~life.units[i].running
            /\ ~life.units[i].engine
            /\ ~life.units[i].bus_open

C23_StopEffectsWitness ==
    /\ life.phase = "stopped"
    /\ \A i \in Units : life.units[i].run_pc = "exited" /\ life.units[i].sim_pc = "exited"
    /\ life.late = {}

----------------------------------------------------------------------------
(* Properties of the receiver under any sequence of inbound frames         *)

FrameNibble(e) == e.data[1] \div 16

IsFirst(e) == FrameNibble(e) = 1

IsConsecutive(e) == FrameNibble(e) = 2

\* The total length a First frame declares.
DeclaredLength(e) == ((e.data[1] % 16) * 256) + e.data[2]

\* A frame the frame format rules out.
IsBadFrame(e) ==
    \/ FrameNibble(e) \notin {0, 1, 2, 3}
    \/ FrameNibble(e) = 0 /\ e.data[1] % 16 > SINGLE_MAX_DATA
    \/ IsFirst(e) /\ DeclaredLength(e) < 8

\* C26: Bad frames are rejected. For every inbound frame whose PCI high
\* nibble is none of 0..3, every Single frame whose length nibble exceeds 7
\* and every First frame declaring a total length below 8: nothing was
\* delivered, no Flow-Control was sent, and the receiver was idle afterwards.
C26_BadFramesRejected ==
    \A j \in 1..Len(inbound) :
        IsBadFrame(inbound[j]) =>
            /\ inbound[j].out = <<>>
            /\ inbound[j].sent = 0
            /\ inbound[j].post = RcvIdle

\* A Single frame with length nibble 8 has been delivered as a 7-byte
\* payload, and a First frame declaring 3 bytes has been answered with a
\* Flow-Control and has left the receiver reassembling.
C26_Witness ==
    /\ Len(inbound) = 2
    /\ inbound[1].data = LongSingleFrame
    /\ inbound[1].out = <<<<1, 2, 3, 4, 5, 6, 7>>>>
    /\ inbound[2].data = ShortFirstFrame
    /\ inbound[2].sent = 1
    /\ rcv.receiving

\* A frame whose PCI high nibble is none of 0..3 is rejected, also in the
\* middle of a reassembly.
C26_UnknownTypeRejected ==
    \A j \in 1..Len(inbound) :
        FrameNibble(inbound[j]) \notin {0, 1, 2, 3} =>
            /\ inbound[j].out = <<>>
            /\ inbound[j].sent = 0
            /\ inbound[j].post = RcvIdle

C26_UnknownTypeWitness ==
    /\ Len(inbound) = 2
    /\ inbound[1].data = FirstFrame20
    /\ inbound[2].data = UnknownFrame
    /\ inbound[2].pre.receiving
    /\ rcv = RcvIdle

\* C27: Reassembly buffer cap. While a reassembly is open the buffer holds at
\* most the number of bytes the First frame declared, and every payload
\* delivered on a Consecutive frame has exactly the declared length.
C27_BufferCap ==
    /\ rcv.receiving => Len(rcv.received_data) <= rcv.expected_length
    /\ \A j \in 1..Len(inbound) :
           (IsConsecutive(inbound[j]) /\ inbound[j].out # <<>>) =>
               Len(inbound[j].out[1]) = inbound[j].pre.expected_length

\* After a First frame declaring 3 bytes the buffer holds 6.
C27_Witness ==
    /\ Len(inbound) >= 1
    /\ inbound[Len(inbound)].data = ShortFirstFrame
    /\ rcv.receiving
    /\ rcv.expected_length = 3
    /\ Len(rcv.received_data) = 6

\* The cap holds after every First frame that declares 8 bytes or more.
C27_BufferCapFromEight ==
    /\ (rcv.receiving /\ rcv.expected_length >= 8) =>
           Len(rcv.received_data) <= rcv.expected_length
    /\ \A j \in 1..Len(inbound) :
           (IsConsecutive(inbound[j]) /\ inbound[j].out # <<>>) =>
               Len(inbound[j].out[1]) = inbound[j].pre.expected_length

C27_BufferCapFromEightWitness ==
    /\ Len(inbound) = 3
    /\ inbound[2].post.receiving
    /\ Len(inbound[2].post.received_data) = 13
    /\ inbound[3].out = <<RcvPayload>>

\* N_Cr, the longest gap between two frames of a message.
N_Cr == DefaultConfig.timeout_ms

\* Frames i..j of the log are a First frame followed by Consecutive frames
\* with sequence numbers 1, 2, ... (mod 16), each within N_Cr of the frame
\* before it.
CleanRun(i, j) ==
    /\ IsFirst(inbound[i])
    /\ \A k \in (i + 1)..j :
           /\ IsConsecutive(inbound[k])
           /\ inbound[k].data[1] % 16 = (k - i) % 16
           /\ inbound[k].time - inbound[k - 1].time <= N_Cr

\* The data bytes of frames i..j of a run, First frame first.
RECURSIVE RunData(_, _)
RunData(i, j) ==
    IF j = i THEN SubSeq(inbound[i].data, 3, 8)
    ELSE RunData(i, j - 1) \o SubSeq(inbound[j].data, 2, 8)

\* C28: No partial or out-of-order delivery. A payload is delivered on a
\* Consecutive frame only at the end of a clean run (a First frame, then
\* every Consecutive frame with the expected sequence number and within
\* N_Cr), and it is the declared number of bytes of that run, in order; a
\* Consecutive frame that does not continue a clean run (sequence mismatch,
\* N_Cr expiry, or no First frame since the last discard) delivers nothing
\* and leaves the receiver idle with an empty buffer.
C28_NoPartialDelivery ==
    \A j \in 1..Len(inbound) :
        IsConsecutive(inbound[j]) =>
            /\ inbound[j].out # <<>> =>
                   \E i \in 1..(j - 1) :
                       /\ CleanRun(i, j)
                       /\ Len(RunData(i, j)) >= DeclaredLength(inbound[i])
                       /\ inbound[j].out =
                              <<SubSeq(RunData(i, j), 1, DeclaredLength(inbound[i]))>>
            /\ (~\E i \in 1..(j - 1) : CleanRun(i, j)) =>
                   /\ inbound[j].out = <<>>
                   /\ inbound[j].post = RcvIdle

\* A First frame, then the Consecutive frame with sequence number 2 (a
\* mismatch), then the one with number 1: nothing is delivered and the
\* receiver is idle.
C28_Witness ==
    /\ Len(inbound) = 3
    /\ inbound[1].data = FirstFrame20
    /\ inbound[2].data = Consecutive2
    /\ inbound[2].pre.receiving
    /\ inbound[3].data = Consecutive1
    /\ delivered = <<>>
    /\ rcv = RcvIdle

\* The gap after the First frame is N_Cr + 1: the Consecutive frame is
\* dropped and the buffer discarded.
C28_ExpiryWitness ==
    /\ Len(inbound) = 2
    /\ inbound[1].data = FirstFrame20
    /\ inbound[2].data = Consecutive1
    /\ inbound[2].time - inbound[1].time = N_Cr + 1
    /\ delivered = <<>>
    /\ rcv = RcvIdle

\* The clean run, with a gap of exactly N_Cr, is delivered whole.
C28_DeliveryWitness ==
    /\ Len(inbound) = 3
    /\ inbound[2].time - inbound[1].time = N_Cr
    /\ delivered = <<RcvPayload>>

----------------------------------------------------------------------------
(* Properties of the sensor model                                          *)

\* The rpm a cranking update(dt) computes before its test
CrankedRpm(rpm, dt) == Min(CRANK_RPM_MAX, rpm + (200 * dt) \div 1000)

C32_CrankingEndWitness ==
    /\ veh_last.op = "update"
    /\ veh_last.arg = 500
    /\ veh_last.pre_state = EngineState_CRANKING
    /\ veh.engine_state = EngineState_RUNNING

\* C33: Cranking ends. Once the engine is cranking, with update called again
\* and again and no stop_engine, the engine eventually runs, whatever
\* set_rpm, set_speed and set_throttle calls come in between.
C33_CrankingEnds ==
    (veh.engine_state = EngineState_CRANKING) ~> (veh.engine_state = EngineState_RUNNING)

\* The engine is still cranking after an update, at an rpm below the 100 rpm
\* start_engine sets: set_rpm has pulled the rpm down in between.
C33_Witness ==
    /\ veh.engine_state = EngineState_CRANKING
    /\ veh_last.op = "update"
    /\ veh_last.pre_state = EngineState_CRANKING
    /\ veh.rpm < CRANK_RPM_START

\* Lemma of C33: when the calls of set_rpm come to an end, cranking ends.
C33_CrankingEndsUndisturbed ==
    <>[](veh_last.op # "set_rpm") =>
        ((veh.engine_state = EngineState_CRANKING) ~> (veh.engine_state = EngineState_RUNNING))

\* The engine runs after an update that ended a cranking nobody disturbed:
\* the rpm is the idle rpm the transition sets.
C33_UndisturbedWitness ==
    /\ veh.engine_state = EngineState_RUNNING
    /\ veh_last.op = "update"
    /\ veh_last.pre_state = EngineState_CRANKING
    /\ veh.rpm = RPM_IDLE

\* C34: Readiness flags are monotone. A completion flag that is true stays
\* true over every step (update, engine stop and start, diagnostic request)
\* except a reset of the drive cycle (reset_drive_cycle, also called by OBD
\* mode 04), and a reset sets all flags to false.
C34_ReadinessMonotone ==
    [][ /\ \/ veh.drive_cycle.complete \subseteq veh'.drive_cycle.complete
           \/ /\ veh_last'.op = "reset_drive_cycle"
              /\ veh'.drive_cycle.complete = {}
        /\ (veh_last' # veh_last /\ veh_last'.op = "reset_drive_cycle") =>
               veh'.drive_cycle.complete = {}
      ]_vars

\* The component monitor has completed, and its flag is still true after the
\* engine was stopped and started again.
C34_Witness ==
    /\ "component" \in veh.drive_cycle.complete
    /\ veh_last.op = "start_engine"
    /\ veh_last.pre_state = EngineState_OFF
    /\ veh.engine_state = EngineState_CRANKING

\* OBD mode 04 has reset the drive cycle of an engine that has run for more
\* than 10 s: the component flag is false again.
C34_ResetWitness ==
    /\ veh_last.op = "reset_drive_cycle"
    /\ obd_last.request = <<4, 0>>
    /\ veh.engine_runtime > 10000
    /\ veh.drive_cycle.complete = {}

\* An update(dt) of the running engine
RunningUpdate == now' # now /\ veh.engine_state = EngineState_RUNNING

\* C35: Distance with MIL. On every update of the running engine the total
\* distance and the distance since clear advance by the same increment, and
\* the distance with MIL advances by that increment when the MIL of the fault
\* registry is on and stays as it is when the MIL is off.
C35_DistanceWithMil ==
    [][ RunningUpdate =>
            LET increment == veh'.distance_traveled - veh.distance_traveled
            IN  /\ veh'.distance_since_clear - veh.distance_since_clear = increment
                /\ veh'.distance_with_mil - veh.distance_with_mil =
                       IF is_mil_on(dtc) THEN increment ELSE 0
      ]_vars

\* With a CONFIRMED and a PERMANENT code in the registry and its MIL on, the
\* running engine has covered a distance and the distance with MIL is 0.
C35_Witness ==
    /\ is_mil_on(dtc)
    /\ veh_last.op = "update"
    /\ veh_last.pre_state = EngineState_RUNNING
    /\ veh.distance_traveled > 0
    /\ veh.distance_since_clear = veh.distance_traveled
    /\ veh.distance_with_mil = 0

\* Lemma of C35: the total distance and the distance since clear advance in
\* lock-step, and the distance with MIL follows sensors.mil_status, which
\* nothing sets: it never advances.
C35_LockStep ==
    [][ RunningUpdate =>
            /\ veh'.distance_since_clear - veh.distance_since_clear =
                   veh'.distance_traveled - veh.distance_traveled
            /\ veh'.distance_with_mil = veh.distance_with_mil
            /\ ~veh'.mil_status
      ]_vars

\* The same distance covered with the MIL of the registry off
C35_LockStepWitness ==
    /\ ~is_mil_on(dtc)
    /\ veh_last.op = "update"
    /\ veh_last.pre_state = EngineState_RUNNING
    /\ veh.distance_traveled > 0
    /\ veh.distance_since_clear = veh.distance_traveled

\* The value a control operation has just stored is its argument brought
\* into the legal range.
ArgumentsClamped ==
    /\ veh_last.op = "set_rpm" => veh.rpm = Clamp(0, RPM_MAX, veh_last.arg)
    /\ veh_last.op = "set_throttle" => veh.throttle_position = Clamp(0, 100, veh_last.arg)
    /\ veh_last.op = "set_speed" => veh.vehicle_speed = Max(0, veh_last.arg * 100)

\* C36: Sensor values stay legal. After any sequence of control operations
\* and updates the rpm is within [0, rpm_max], the throttle position within
\* [0, 100] and the vehicle speed at least 0, and an argument out of range is
\* stored clamped.
C36_SensorsLegal ==
    /\ veh.rpm \in 0..RPM_MAX
    /\ veh.throttle_position \in 0..100
    /\ veh.vehicle_speed >= 0
    /\ ArgumentsClamped

\* set_speed(300) on the running engine has left the rpm above rpm_max.
C36_Witness ==
    /\ veh_last.op = "set_speed"
    /\ veh_last.arg = 300
    /\ veh_last.pre_state = EngineState_RUNNING
    /\ veh.rpm = RPM_IDLE + 300 * RPM_PER_KMH
    /\ veh.rpm > RPM_MAX

\* Lemma of C36: throttle position and speed stay legal, out-of-range
\* arguments are stored clamped, and the rpm is legal except from a set_speed
\* on the running engine until the next update, set_rpm or stop_engine.
C36_LegalButSetSpeed ==
    /\ veh.throttle_position \in 0..100
    /\ veh.vehicle_speed >= 0
    /\ ArgumentsClamped
    /\ \/ veh.rpm \in 0..RPM_MAX
       \/ /\ veh.engine_state = EngineState_RUNNING
          /\ veh.rpm = RPM_IDLE + 300 * RPM_PER_KMH
          /\ veh_last.op \in {"set_speed", "set_throttle", "start_engine"}

\* set_rpm(7000) has stored rpm_max, with the throttle at 100 after
\* set_throttle(150).
C36_ClampWitness ==
    /\ veh_last.op = "set_rpm"
    /\ veh_last.arg = 7000
    /\ veh.rpm = RPM_MAX
    /\ veh.throttle_position = 100

----------------------------------------------------------------------------
(* Properties of the fault registry: a code detected again after a clear   *)

SetStates == {DTCState_PENDING, DTCState_CONFIRMED, DTCState_PERMANENT}

\* C37: A cleared code can be set again. Every successful inject_dtc leaves
\* the injected code PENDING, CONFIRMED or PERMANENT, also when a clear had
\* moved the code to HISTORY before.
C37_ClearedCodeSetAgain ==
    LastInjected => StateOf(dtc, dtc_last.code) \in SetStates

\* P0100 was detected, cleared to HISTORY and detected again: inject_dtc
\* returned True and the code is still in HISTORY, with both detections
\* counted.
C37_Witness ==
    /\ LastInjected
    /\ dtc_last.code = P0100
    /\ dtc_last.pre_state = DTCState_HISTORY
    /\ dtc_last.pre_count = 1
    /\ StateOf(dtc, P0100) = DTCState_HISTORY
    /\ CountOf(dtc, P0100) = 2

\* Lemma of C37: a successful inject_dtc leaves a code that was not in
\* HISTORY in one of the three set states; a code in HISTORY stays there,
\* only its count goes up, whatever the threshold.
C37_HistoryIsFinal ==
    /\ (LastInjected /\ dtc_last.pre_state # DTCState_HISTORY) =>
           StateOf(dtc, dtc_last.code) \in SetStates
    /\ (LastInjected /\ dtc_last.pre_state = DTCState_HISTORY) =>
           /\ StateOf(dtc, dtc_last.code) = DTCState_HISTORY
           /\ CountOf(dtc, dtc_last.code) = dtc_last.pre_count + 1

\* P0420, cleared to HISTORY after one detection, has been detected twice
\* more: three detections, and still HISTORY with the MIL off.
C37_HistoryIsFinalWitness ==
    /\ LastInjected
    /\ dtc_last.code = P0420
    /\ dtc_last.pre_state = DTCState_HISTORY
    /\ CountOf(dtc, P0420) = 3
    /\ StateOf(dtc, P0420) = DTCState_HISTORY
    /\ ~is_mil_on(dtc)

----------------------------------------------------------------------------
(* Properties of the sensor model under two threads                        *)

\* C39: once stop_engine() has returned, the engine state is OFF and stays
\* OFF until start_engine() is called, whatever the simulation thread does
\* in update() meanwhile.
C39_StopWins == thr.stop_returned => veh.engine_state = EngineState_OFF

\* stop_engine() has returned, start_engine() was not called since, update()
\* has finished its cranking branch, and the engine is running at idle rpm.
C39_Witness ==
    /\ thr.stop_returned
    /\ thr.ctl_pc = "idle"
    /\ thr.upd_pc = "idle"
    /\ veh.engine_state = EngineState_RUNNING
    /\ veh.rpm = RPM_IDLE

\* What holds: the engine state is OFF after stop_engine() returned unless
\* its assignment fell between the cranking test of update() and the
\* assignment of RUNNING in _update_cranking_state.
C39_StopWinsUnlessRaced ==
    (thr.stop_returned /\ ~thr.raced) => veh.engine_state = EngineState_OFF

\* stop_engine() returned while update() was inside its running branch, and
\* the update has finished since.
C39_UnlessRacedWitness ==
    /\ thr.stop_returned
    /\ ~thr.raced
    /\ thr.upd_pc = "idle"
    /\ veh.engine_state = EngineState_OFF
    /\ veh.rpm >= RPM_FLOOR

\* After the race the engine does not leave RUNNING: later updates take the
\* running branch.
C39_RacedWitness ==
    /\ thr.stop_returned
    /\ thr.raced
    /\ veh.engine_state = EngineState_RUNNING
    /\ veh.engine_runtime > 0

----------------------------------------------------------------------------
(* Properties of send() against a peer that never stops                    *)

WaitFrame(bs) == create_flow_control(FlowStatus_WAIT, bs, 0, TRUE)

CtsFrame == create_flow_control(FlowStatus_CONTINUE_TO_SEND, 0, 0, TRUE)

FramesOf(n) ==
    IF n <= SINGLE_MAX_DATA THEN 1
    ELSE 1 + ((n - FIRST_DATA_LEN) + CONSEC_DATA_LEN - 1) \div CONSEC_DATA_LEN

\* The wait for a Flow-Control frame never lasts longer than N_Bs.
C40_BoundedWait ==
    snd.pc = "wait_fc" => now - snd.start_time <= config.timeout_ms

\* How send() returns: True with every frame of the payload on the bus, or
\* False with the First frame alone on the bus, when N_Bs has elapsed or when
\* the last Flow-Control frame read had a second byte other than 0 and 1.
C40_Outcome ==
    snd.pc = "done" =>
        \/ /\ snd.result = "True"
           /\ Len(tx_log) = FramesOf(Len(snd.payload))
        \/ /\ snd.result = "False"
           /\ Len(tx_log) = 1
           /\ \/ now - snd.start_time >= config.timeout_ms
              \/ /\ fc_seen # <<>>
                 /\ fc_seen[Len(fc_seen)][2] \notin {FlowStatus_CONTINUE_TO_SEND, FlowStatus_WAIT}

\* send() of 20 bytes returned True after a Wait frame and a Continue-to-send.
C40_SuccessWitness ==
    /\ snd.pc = "done"
    /\ snd.result = "True"
    /\ Len(snd.payload) = 20
    /\ fc_seen = <<WaitFrame(1), CtsFrame>>
    /\ Len(tx_log) = 3

\* send() returned False at once on a Wait frame with block-size byte 8.
C40_EarlyWitness ==
    /\ snd.pc = "done"
    /\ snd.result = "False"
    /\ now = snd.start_time
    /\ fc_seen = <<WaitFrame(8)>>

====
